---- MODULE Spec2Model ----
(***************************************************************************)
(* Target configuration and incremental build engine of compiler.py:       *)
(* chip resolution (_lookup_chip), the build session (class Compiler:      *)
(* set_chip, check, _find_hal, precompile_hal, compile) and the files the  *)
(* session reads and writes (HAL sources, per-family objects and archive,  *)
(* firmware.bin), the linker script and the startup code it generates      *)
(* (_gen_linker_script, _gen_startup), and the reset handler of that       *)
(* startup code as a Cortex-M core executes it.                            *)
(*                                                                         *)
(* Chip names are sequences of one-character strings, so that slicing,     *)
(* startswith and the regular expression of _lookup_chip are computed as   *)
(* the code computes them.  A reference to a CHIP_DB entry is the entry's  *)
(* position in the table; 0 is Python's None.                              *)
(***************************************************************************)
EXTENDS Integers, Sequences, FiniteSets, TLC

\* Longest package suffix appended to a table key in the resolver inputs.
MaxSuffix == 2
\* Modification times are 0..MaxTime.
MaxTime == 1

\* the linker script is generated for every size from 1 KB up to this one
MaxSizeK == 12

\* .data and .bss each have up to this many words when the firmware runs
MaxWords == 2

\* the stderr texts have up to this many lines, the long ones apart
MaxLines == 3

(***************************************************************************)
(* Strings                                                                 *)
(***************************************************************************)
LowerCase ==
    <<"a","b","c","d","e","f","g","h","i","j","k","l","m",
      "n","o","p","q","r","s","t","u","v","w","x","y","z">>
UpperCase ==
    <<"A","B","C","D","E","F","G","H","I","J","K","L","M",
      "N","O","P","Q","R","S","T","U","V","W","X","Y","Z">>
Letters == {UpperCase[i] : i \in DOMAIN UpperCase}
Digits == {"0","1","2","3","4","5","6","7","8","9"}

\* str.upper() on one character
Upper(c) ==
    IF \E i \in DOMAIN LowerCase : LowerCase[i] = c
    THEN UpperCase[CHOOSE i \in DOMAIN LowerCase : LowerCase[i] = c]
    ELSE c

NotSeparator(c) == c \notin {"-", " "}

\* chip_name.upper().replace("-", "").replace(" ", "")
Normalize(chip_name) ==
    SelectSeq([i \in DOMAIN chip_name |-> Upper(chip_name[i])], NotSeparator)

\* name.startswith(prefix)
StartsWith(name, prefix) ==
    /\ Len(prefix) <= Len(name)
    /\ SubSeq(name, 1, Len(prefix)) = prefix

\* name[:-suffix_len] if len(name) > suffix_len else name
StripSuffix(name, suffix_len) ==
    IF Len(name) > suffix_len THEN SubSeq(name, 1, Len(name) - suffix_len) ELSE name

(***************************************************************************)
(* Chip parameter table, in the table's order                              *)
(***************************************************************************)
STM32 == <<"S","T","M","3","2">>
STM32F == STM32 \o <<"F">>

CHIP_DB ==
    << [key |-> STM32F \o <<"1", "0", "3", "C", "8">>, cpu |-> "cortex-m3", flash_k |-> 64, ram_k |-> 20,
        define |-> "STM32F103xB", family |-> "f1", fpu |-> FALSE],
       [key |-> STM32F \o <<"1", "0", "3", "C", "B">>, cpu |-> "cortex-m3", flash_k |-> 128, ram_k |-> 20,
        define |-> "STM32F103xB", family |-> "f1", fpu |-> FALSE],
       [key |-> STM32F \o <<"1", "0", "3", "R", "B">>, cpu |-> "cortex-m3", flash_k |-> 128, ram_k |-> 20,
        define |-> "STM32F103xB", family |-> "f1", fpu |-> FALSE],
       [key |-> STM32F \o <<"1", "0", "3", "R", "C">>, cpu |-> "cortex-m3", flash_k |-> 256, ram_k |-> 48,
        define |-> "STM32F103xE", family |-> "f1", fpu |-> FALSE],
       [key |-> STM32F \o <<"1", "0", "3", "R", "E">>, cpu |-> "cortex-m3", flash_k |-> 512, ram_k |-> 64,
        define |-> "STM32F103xE", family |-> "f1", fpu |-> FALSE],
       [key |-> STM32F \o <<"1", "0", "3", "Z", "E">>, cpu |-> "cortex-m3", flash_k |-> 512, ram_k |-> 64,
        define |-> "STM32F103xE", family |-> "f1", fpu |-> FALSE],
       [key |-> STM32F \o <<"1", "0", "3", "V", "E">>, cpu |-> "cortex-m3", flash_k |-> 512, ram_k |-> 64,
        define |-> "STM32F103xE", family |-> "f1", fpu |-> FALSE],
       [key |-> STM32F \o <<"1", "0", "0", "R", "B">>, cpu |-> "cortex-m3", flash_k |-> 128, ram_k |-> 8,
        define |-> "STM32F100xB", family |-> "f1", fpu |-> FALSE],
       [key |-> STM32F \o <<"1", "0", "5">>, cpu |-> "cortex-m3", flash_k |-> 256, ram_k |-> 64,
        define |-> "STM32F105xC", family |-> "f1", fpu |-> FALSE],
       [key |-> STM32F \o <<"1", "0", "7">>, cpu |-> "cortex-m3", flash_k |-> 256, ram_k |-> 64,
        define |-> "STM32F107xC", family |-> "f1", fpu |-> FALSE],
       [key |-> STM32F \o <<"4", "0", "1", "C", "C">>, cpu |-> "cortex-m4", flash_k |-> 256, ram_k |-> 64,
        define |-> "STM32F401xC", family |-> "f4", fpu |-> TRUE],
       [key |-> STM32F \o <<"4", "0", "1", "C", "E">>, cpu |-> "cortex-m4", flash_k |-> 512, ram_k |-> 96,
        define |-> "STM32F401xE", family |-> "f4", fpu |-> TRUE],
       [key |-> STM32F \o <<"4", "0", "7", "V", "E">>, cpu |-> "cortex-m4", flash_k |-> 512, ram_k |-> 128,
        define |-> "STM32F407xx", family |-> "f4", fpu |-> TRUE],
       [key |-> STM32F \o <<"4", "0", "7", "V", "G">>, cpu |-> "cortex-m4", flash_k |-> 1024, ram_k |-> 128,
        define |-> "STM32F407xx", family |-> "f4", fpu |-> TRUE],
       [key |-> STM32F \o <<"4", "0", "7", "Z", "G">>, cpu |-> "cortex-m4", flash_k |-> 1024, ram_k |-> 128,
        define |-> "STM32F407xx", family |-> "f4", fpu |-> TRUE],
       [key |-> STM32F \o <<"4", "1", "1", "C", "E">>, cpu |-> "cortex-m4", flash_k |-> 512, ram_k |-> 128,
        define |-> "STM32F411xE", family |-> "f4", fpu |-> TRUE],
       [key |-> STM32F \o <<"4", "2", "9", "Z", "I">>, cpu |-> "cortex-m4", flash_k |-> 2048, ram_k |-> 256,
        define |-> "STM32F429xx", family |-> "f4", fpu |-> TRUE],
       [key |-> STM32F \o <<"4", "4", "6", "R", "E">>, cpu |-> "cortex-m4", flash_k |-> 512, ram_k |-> 128,
        define |-> "STM32F446xx", family |-> "f4", fpu |-> TRUE],
       [key |-> STM32F \o <<"0", "3", "0", "F", "4">>, cpu |-> "cortex-m0", flash_k |-> 16, ram_k |-> 4,
        define |-> "STM32F030x6", family |-> "f0", fpu |-> FALSE],
       [key |-> STM32F \o <<"0", "3", "0", "C", "8">>, cpu |-> "cortex-m0", flash_k |-> 64, ram_k |-> 8,
        define |-> "STM32F030x8", family |-> "f0", fpu |-> FALSE],
       [key |-> STM32F \o <<"0", "7", "2", "R", "B">>, cpu |-> "cortex-m0", flash_k |-> 128, ram_k |-> 16,
        define |-> "STM32F072xB", family |-> "f0", fpu |-> FALSE],
       [key |-> STM32F \o <<"3", "0", "3", "C", "C">>, cpu |-> "cortex-m4", flash_k |-> 256, ram_k |-> 40,
        define |-> "STM32F303xC", family |-> "f3", fpu |-> TRUE],
       [key |-> STM32F \o <<"3", "0", "3", "R", "E">>, cpu |-> "cortex-m4", flash_k |-> 512, ram_k |-> 64,
        define |-> "STM32F303xE", family |-> "f3", fpu |-> TRUE] >>

ChipIndexes == DOMAIN CHIP_DB
\* Python's None, as a reference to a table entry
NoChip == 0

\* the position of key in CHIP_DB (key in CHIP_DB, CHIP_DB[key]); NoChip if absent
KeyIndex(key) ==
    IF \E i \in ChipIndexes : CHIP_DB[i].key = key
    THEN CHOOSE i \in ChipIndexes : CHIP_DB[i].key = key
    ELSE NoChip

\* the first of the table positions S, in table order (for key in CHIP_DB:
\* if ...: return CHIP_DB[key]); NoChip if there is none
FirstEntry(S) ==
    IF S = {} THEN NoChip ELSE CHOOSE i \in S : \A j \in S : i <= j

\* the last of the table positions S
LastEntry(S) ==
    IF S = {} THEN NoChip ELSE CHOOSE i \in S : \A j \in S : j <= i

(***************************************************************************)
(* _lookup_chip: the four strategies on the normalized name                *)
(***************************************************************************)
\* if name in CHIP_DB
ExactMatch(name) == KeyIndex(name)

\* for suffix_len in range(2, 0, -1)
SuffixMatch(name) ==
    IF KeyIndex(StripSuffix(name, 2)) # NoChip
    THEN KeyIndex(StripSuffix(name, 2))
    ELSE KeyIndex(StripSuffix(name, 1))

\* for key in CHIP_DB: if name.startswith(key)
PrefixMatch(name) ==
    FirstEntry({i \in ChipIndexes : StartsWith(name, CHIP_DB[i].key)})

\* re.match(r'(STM32[A-Z]\d{3})', name)
ReMatches(name) ==
    /\ Len(name) >= 9
    /\ SubSeq(name, 1, 5) = STM32
    /\ name[6] \in Letters
    /\ \A i \in 7..9 : name[i] \in Digits

\* the family fallback returning the last entry that shares the prefix
FamilyMatchLast(name) ==
    IF ReMatches(name)
    THEN LastEntry({i \in ChipIndexes : StartsWith(CHIP_DB[i].key, SubSeq(name, 1, 9))})
    ELSE NoChip

\* m.group(1), then for key in CHIP_DB: if key.startswith(prefix)
FamilyMatch(name) ==
    IF ReMatches(name)
    THEN FirstEntry({i \in ChipIndexes : StartsWith(CHIP_DB[i].key, SubSeq(name, 1, 9))})
    ELSE NoChip

\* the cascade with the family fallback tried before the other strategies
LookupChipFamilyFirst(chip_name) ==
    LET name == Normalize(chip_name)
    IN  IF FamilyMatch(name) # NoChip THEN FamilyMatch(name)
        ELSE IF ExactMatch(name) # NoChip THEN ExactMatch(name)
        ELSE IF SuffixMatch(name) # NoChip THEN SuffixMatch(name)
        ELSE PrefixMatch(name)

_lookup_chip(chip_name) ==
    LET name == Normalize(chip_name)
    IN  IF ExactMatch(name) # NoChip THEN ExactMatch(name)
        ELSE IF SuffixMatch(name) # NoChip THEN SuffixMatch(name)
        ELSE IF PrefixMatch(name) # NoChip THEN PrefixMatch(name)
        ELSE FamilyMatch(name)

(***************************************************************************)
(* Interrupt tables: one handler name per vector-table slot, in slot       *)
(* order; None (a reserved slot) is the empty name, which Python's         *)
(* "if name" takes for false as it does None                               *)
(***************************************************************************)
None == ""

_F1_IRQ_NAMES ==
    <<
     "WWDG_IRQHandler", "PVD_IRQHandler", "TAMPER_IRQHandler",
     "RTC_IRQHandler", "FLASH_IRQHandler", "RCC_IRQHandler",
     "EXTI0_IRQHandler", "EXTI1_IRQHandler", "EXTI2_IRQHandler",
     "EXTI3_IRQHandler", "EXTI4_IRQHandler", "DMA1_Channel1_IRQHandler",
     "DMA1_Channel2_IRQHandler", "DMA1_Channel3_IRQHandler",
     "DMA1_Channel4_IRQHandler", "DMA1_Channel5_IRQHandler",
     "DMA1_Channel6_IRQHandler", "DMA1_Channel7_IRQHandler",
     "ADC1_2_IRQHandler", "USB_HP_CAN1_TX_IRQHandler",
     "USB_LP_CAN1_RX0_IRQHandler", "CAN1_RX1_IRQHandler",
     "CAN1_SCE_IRQHandler", "EXTI9_5_IRQHandler", "TIM1_BRK_IRQHandler",
     "TIM1_UP_IRQHandler", "TIM1_TRG_COM_IRQHandler", "TIM1_CC_IRQHandler",
     "TIM2_IRQHandler", "TIM3_IRQHandler", "TIM4_IRQHandler",
     "I2C1_EV_IRQHandler", "I2C1_ER_IRQHandler", "I2C2_EV_IRQHandler",
     "I2C2_ER_IRQHandler", "SPI1_IRQHandler", "SPI2_IRQHandler",
     "USART1_IRQHandler", "USART2_IRQHandler", "USART3_IRQHandler",
     "EXTI15_10_IRQHandler", "RTC_Alarm_IRQHandler", "USBWakeUp_IRQHandler",
     "TIM8_BRK_IRQHandler", "TIM8_UP_IRQHandler", "TIM8_TRG_COM_IRQHandler",
     "TIM8_CC_IRQHandler", "ADC3_IRQHandler", "FSMC_IRQHandler",
     "SDIO_IRQHandler", "TIM5_IRQHandler", "SPI3_IRQHandler",
     "UART4_IRQHandler", "UART5_IRQHandler", "TIM6_IRQHandler",
     "TIM7_IRQHandler", "DMA2_Channel1_IRQHandler",
     "DMA2_Channel2_IRQHandler", "DMA2_Channel3_IRQHandler",
     "DMA2_Channel4_5_IRQHandler", None, None, None, None, None, None, None,
     None
    >>

_F0_IRQ_NAMES ==
    <<
     "WWDG_IRQHandler", "PVD_VDDIO2_IRQHandler", "RTC_IRQHandler",
     "FLASH_IRQHandler", "RCC_CRS_IRQHandler", "EXTI0_1_IRQHandler",
     "EXTI2_3_IRQHandler", "EXTI4_15_IRQHandler", "TSC_IRQHandler",
     "DMA1_Channel1_IRQHandler", "DMA1_Channel2_3_IRQHandler",
     "DMA1_Channel4_5_6_7_IRQHandler", "ADC1_COMP_IRQHandler",
     "TIM1_BRK_UP_TRG_COM_IRQHandler", "TIM1_CC_IRQHandler",
     "TIM2_IRQHandler", "TIM3_IRQHandler", "TIM6_DAC_IRQHandler",
     "TIM7_IRQHandler", "TIM14_IRQHandler", "TIM15_IRQHandler",
     "TIM16_IRQHandler", "TIM17_IRQHandler", "I2C1_IRQHandler",
     "I2C2_IRQHandler", "SPI1_IRQHandler", "SPI2_IRQHandler",
     "USART1_IRQHandler", "USART2_IRQHandler", "USART3_4_IRQHandler",
     "CEC_CAN_IRQHandler", "USB_IRQHandler"
    >>

_F3_IRQ_NAMES ==
    <<
     "WWDG_IRQHandler", "PVD_IRQHandler", "TAMP_STAMP_IRQHandler",
     "RTC_WKUP_IRQHandler", "FLASH_IRQHandler", "RCC_IRQHandler",
     "EXTI0_IRQHandler", "EXTI1_IRQHandler", "EXTI2_TSC_IRQHandler",
     "EXTI3_IRQHandler", "EXTI4_IRQHandler", "DMA1_Channel1_IRQHandler",
     "DMA1_Channel2_IRQHandler", "DMA1_Channel3_IRQHandler",
     "DMA1_Channel4_IRQHandler", "DMA1_Channel5_IRQHandler",
     "DMA1_Channel6_IRQHandler", "DMA1_Channel7_IRQHandler",
     "ADC1_2_IRQHandler", "USB_HP_CAN1_TX_IRQHandler",
     "USB_LP_CAN1_RX0_IRQHandler", "CAN1_RX1_IRQHandler",
     "CAN1_SCE_IRQHandler", "EXTI9_5_IRQHandler",
     "TIM1_BRK_TIM15_IRQHandler", "TIM1_UP_TIM16_IRQHandler",
     "TIM1_TRG_COM_TIM17_IRQHandler", "TIM1_CC_IRQHandler",
     "TIM2_IRQHandler", "TIM3_IRQHandler", "TIM4_IRQHandler",
     "I2C1_EV_IRQHandler", "I2C1_ER_IRQHandler", "I2C2_EV_IRQHandler",
     "I2C2_ER_IRQHandler", "SPI1_IRQHandler", "SPI2_IRQHandler",
     "USART1_IRQHandler", "USART2_IRQHandler", "USART3_IRQHandler",
     "EXTI15_10_IRQHandler", "RTC_Alarm_IRQHandler", "USBWakeUp_IRQHandler",
     "TIM8_BRK_IRQHandler", "TIM8_UP_IRQHandler", "TIM8_TRG_COM_IRQHandler",
     "TIM8_CC_IRQHandler", "ADC3_IRQHandler", None, None, "SPI3_IRQHandler",
     "UART4_IRQHandler", "UART5_IRQHandler", "TIM6_DAC_IRQHandler",
     "TIM7_IRQHandler", "DMA2_Channel1_IRQHandler",
     "DMA2_Channel2_IRQHandler", "DMA2_Channel3_IRQHandler",
     "DMA2_Channel4_IRQHandler", "DMA2_Channel5_IRQHandler",
     "ADC4_IRQHandler", None, None, "COMP1_2_3_IRQHandler",
     "COMP4_5_6_IRQHandler", "COMP7_IRQHandler", None, None, None, None,
     None, "I2C3_EV_IRQHandler", "I2C3_ER_IRQHandler", "USB_HP_IRQHandler",
     "USB_LP_IRQHandler", "USBWakeUp_RMP_IRQHandler", "TIM20_BRK_IRQHandler",
     "TIM20_UP_IRQHandler", "TIM20_TRG_COM_IRQHandler",
     "TIM20_CC_IRQHandler", "FPU_IRQHandler", "SPI4_IRQHandler"
    >>

_F4_IRQ_NAMES ==
    <<
     "WWDG_IRQHandler", "PVD_IRQHandler", "TAMP_STAMP_IRQHandler",
     "RTC_WKUP_IRQHandler", "FLASH_IRQHandler", "RCC_IRQHandler",
     "EXTI0_IRQHandler", "EXTI1_IRQHandler", "EXTI2_IRQHandler",
     "EXTI3_IRQHandler", "EXTI4_IRQHandler", "DMA1_Stream0_IRQHandler",
     "DMA1_Stream1_IRQHandler", "DMA1_Stream2_IRQHandler",
     "DMA1_Stream3_IRQHandler", "DMA1_Stream4_IRQHandler",
     "DMA1_Stream5_IRQHandler", "DMA1_Stream6_IRQHandler", "ADC_IRQHandler",
     "CAN1_TX_IRQHandler", "CAN1_RX0_IRQHandler", "CAN1_RX1_IRQHandler",
     "CAN1_SCE_IRQHandler", "EXTI9_5_IRQHandler", "TIM1_BRK_TIM9_IRQHandler",
     "TIM1_UP_TIM10_IRQHandler", "TIM1_TRG_COM_TIM11_IRQHandler",
     "TIM1_CC_IRQHandler", "TIM2_IRQHandler", "TIM3_IRQHandler",
     "TIM4_IRQHandler", "I2C1_EV_IRQHandler", "I2C1_ER_IRQHandler",
     "I2C2_EV_IRQHandler", "I2C2_ER_IRQHandler", "SPI1_IRQHandler",
     "SPI2_IRQHandler", "USART1_IRQHandler", "USART2_IRQHandler",
     "USART3_IRQHandler", "EXTI15_10_IRQHandler", "RTC_Alarm_IRQHandler",
     "OTG_FS_WKUP_IRQHandler", "TIM8_BRK_TIM12_IRQHandler",
     "TIM8_UP_TIM13_IRQHandler", "TIM8_TRG_COM_TIM14_IRQHandler",
     "TIM8_CC_IRQHandler", "DMA1_Stream7_IRQHandler", "FSMC_IRQHandler",
     "SDIO_IRQHandler", "TIM5_IRQHandler", "SPI3_IRQHandler",
     "UART4_IRQHandler", "UART5_IRQHandler", "TIM6_DAC_IRQHandler",
     "TIM7_IRQHandler", "DMA2_Stream0_IRQHandler", "DMA2_Stream1_IRQHandler",
     "DMA2_Stream2_IRQHandler", "DMA2_Stream3_IRQHandler",
     "DMA2_Stream4_IRQHandler", "ETH_IRQHandler", "ETH_WKUP_IRQHandler",
     "CAN2_TX_IRQHandler", "CAN2_RX0_IRQHandler", "CAN2_RX1_IRQHandler",
     "CAN2_SCE_IRQHandler", "OTG_FS_IRQHandler", "DMA2_Stream5_IRQHandler",
     "DMA2_Stream6_IRQHandler", "DMA2_Stream7_IRQHandler",
     "USART6_IRQHandler", "I2C3_EV_IRQHandler", "I2C3_ER_IRQHandler",
     "OTG_HS_EP1_OUT_IRQHandler", "OTG_HS_EP1_IN_IRQHandler",
     "OTG_HS_WKUP_IRQHandler", "OTG_HS_IRQHandler", "DCMI_IRQHandler", None,
     "HASH_RNG_IRQHandler", "FPU_IRQHandler"
    >>

_FAMILY_IRQ_NAMES ==
    [f \in {"f0", "f1", "f3", "f4"} |->
        CASE f = "f1" -> _F1_IRQ_NAMES
          [] f = "f0" -> _F0_IRQ_NAMES
          [] f = "f3" -> _F3_IRQ_NAMES
          [] f = "f4" -> _F4_IRQ_NAMES]

\* _FAMILY_IRQ_NAMES.get(family, _F1_IRQ_NAMES)
IrqNames(family) ==
    IF family \in DOMAIN _FAMILY_IRQ_NAMES
    THEN _FAMILY_IRQ_NAMES[family] ELSE _F1_IRQ_NAMES

(***************************************************************************)
(* Generated texts.  A text is the sequence of its statements, blank lines *)
(* and comments left out.  An assembly statement is a record               *)
(*   [label, op, args]                                                     *)
(* with label "" when the line has none and op "" for a bare label; args   *)
(* are the operands as tokens, so ".word 0,0,0,0" has four and "=_estack"  *)
(* is "=" followed by the symbol.                                          *)
(***************************************************************************)
Line(label, op, args) == [label |-> label, op |-> op, args |-> args]

Stmt(op, args) == Line("", op, args)

Label(name) == Line(name, "", <<>>)

\* "  .word {name}" if name else "  .word 0  /* reserved */"
VecLine(name) == IF name # None THEN Stmt(".word", <<name>>)
                                ELSE Stmt(".word", <<"0">>)

\* a variant that gives reserved slots no word
VecLinesNamedOnly(irq_names) ==
    [i \in 1..Len(SelectSeq(irq_names, LAMBDA name : name # None)) |->
        VecLine(SelectSeq(irq_names, LAMBDA name : name # None)[i])]

vec_lines(irq_names) == [i \in 1..Len(irq_names) |-> VecLine(irq_names[i])]

Named(irq_names) == SelectSeq(irq_names, LAMBDA name : name # None)

\* ".weak {name}\n.thumb_set {name}, Default_Handler", two statements
WeakAlias(name, k) ==
    IF k = 1 THEN Stmt(".weak", <<name>>)
             ELSE Stmt(".thumb_set", <<name, "Default_Handler">>)

WeakLinesOf(names) ==
    [j \in 1..(2 * Len(names)) |-> WeakAlias(names[(j + 1) \div 2], 2 - (j % 2))]

\* a variant that leaves the last named slot without an alias
WeakLinesButLast(irq_names) ==
    WeakLinesOf(SubSeq(Named(irq_names), 1, Len(Named(irq_names)) - 1))

weak_lines(irq_names) == WeakLinesOf(Named(irq_names))

StartupHeader(cpu) ==
    << Stmt(".syntax", <<"unified">>),
       Stmt(".cpu", <<cpu>>),
       Stmt(".thumb", <<>>),
       Stmt(".global", <<"g_pfnVectors">>),
       Stmt(".global", <<"Default_Handler">>) >>

CoreVectors ==
    << Stmt(".section", <<".isr_vector", "\"a\"", "%progbits">>),
       Stmt(".type", <<"g_pfnVectors", "%object">>),
       Label("g_pfnVectors"),
       Stmt(".word", <<"_estack">>),
       Stmt(".word", <<"Reset_Handler">>),
       Stmt(".word", <<"NMI_Handler">>),
       Stmt(".word", <<"HardFault_Handler">>),
       Stmt(".word", <<"MemManage_Handler">>),
       Stmt(".word", <<"BusFault_Handler">>),
       Stmt(".word", <<"UsageFault_Handler">>),
       Stmt(".word", <<"0", "0", "0", "0">>),
       Stmt(".word", <<"SVC_Handler">>),
       Stmt(".word", <<"DebugMon_Handler">>),
       Stmt(".word", <<"0">>),
       Stmt(".word", <<"PendSV_Handler">>),
       Stmt(".word", <<"SysTick_Handler">>) >>

ResetHandlerCode ==
    << Stmt(".section", <<".text.Reset_Handler">>),
       Stmt(".weak", <<"Reset_Handler">>),
       Stmt(".type", <<"Reset_Handler", "%function">>),
       Label("Reset_Handler"),
       Stmt("ldr", <<"r0", "=", "_estack">>),
       Stmt("mov", <<"sp", "r0">>),
       Stmt("ldr", <<"r0", "=", "_sdata">>),
       Stmt("ldr", <<"r1", "=", "_edata">>),
       Stmt("ldr", <<"r2", "=", "_etext">>),
       Stmt("b", <<"2f">>),
       Line("1", "ldr", <<"r3", "[r2]", "#4">>),
       Stmt("str", <<"r3", "[r0]", "#4">>),
       Line("2", "cmp", <<"r0", "r1">>),
       Stmt("blt", <<"1b">>),
       Stmt("ldr", <<"r0", "=", "_sbss">>),
       Stmt("ldr", <<"r1", "=", "_ebss">>),
       Stmt("movs", <<"r2", "#0">>),
       Stmt("b", <<"4f">>),
       Line("3", "str", <<"r2", "[r0]", "#4">>),
       Line("4", "cmp", <<"r0", "r1">>),
       Stmt("blt", <<"3b">>),
       Stmt("bl", <<"SystemInit">>),
       Stmt("bl", <<"main">>),
       Stmt("b", <<".">>) >>

DefaultHandlerCode ==
    << Stmt(".section", <<".text.Default_Handler", "\"ax\"", "%progbits">>),
       Line("Default_Handler", "b", <<".">>) >>

CoreWeakNames ==
    << "NMI_Handler", "HardFault_Handler", "MemManage_Handler",
       "BusFault_Handler", "UsageFault_Handler", "SVC_Handler",
       "DebugMon_Handler", "PendSV_Handler", "SysTick_Handler",
       "SystemInit" >>

\* a variant whose reset handler calls SystemInit before it fills RAM
GenStartupHookFirst(cpu, irq_names) ==
    StartupHeader(cpu) \o CoreVectors \o vec_lines(irq_names)
        \o SubSeq(ResetHandlerCode, 1, 4) \o <<ResetHandlerCode[22]>>
        \o SubSeq(ResetHandlerCode, 5, 21) \o SubSeq(ResetHandlerCode, 23, 24)
        \o DefaultHandlerCode
        \o WeakLinesOf(CoreWeakNames) \o weak_lines(irq_names)

_gen_startup(cpu, irq_names) ==
    StartupHeader(cpu) \o CoreVectors \o vec_lines(irq_names)
        \o ResetHandlerCode \o DefaultHandlerCode
        \o WeakLinesOf(CoreWeakNames) \o weak_lines(irq_names)

(***************************************************************************)
(* str() of a non-negative int, as the f-string renders {flash_k}: the     *)
(* sequence of its decimal digits, most significant first                  *)
(***************************************************************************)
DigitChars == <<"0", "1", "2", "3", "4", "5", "6", "7", "8", "9">>

RECURSIVE Decimal(_)
Decimal(n) ==
    IF n < 10 THEN <<DigitChars[n + 1]>>
              ELSE Append(Decimal(n \div 10), DigitChars[(n % 10) + 1])

(***************************************************************************)
(* A linker script statement is a record [kind, name, attrs, origin,       *)
(* length, at, body, region, value]; kind is "region" (a line of the       *)
(* MEMORY block), "assign" (symbol = value;) or "section" (an output       *)
(* section of the SECTIONS block, its body a sequence of items             *)
(* <<kind, a, b>>: <<"keep", pattern, "">>, <<"input", pattern, "">>,      *)
(* <<"assign", symbol, value>>).  Fields a kind does not have are empty.   *)
(***************************************************************************)
NoLength == [digits |-> <<>>, unit |-> ""]

LdStmt(kind, name) ==
    [kind |-> kind, name |-> name, attrs |-> "", origin |-> "",
     length |-> NoLength, at |-> "", body |-> <<>>, region |-> "",
     value |-> ""]

\* a variant that leaves the K out
RegionNoUnit(name, attrs, origin, size_k) ==
    [LdStmt("region", name) EXCEPT !.attrs = attrs, !.origin = origin,
        !.length = [digits |-> Decimal(size_k), unit |-> ""]]

\* "  NAME (attrs) : ORIGIN = origin, LENGTH = {size_k}K"
Region(name, attrs, origin, size_k) ==
    [LdStmt("region", name) EXCEPT !.attrs = attrs, !.origin = origin,
        !.length = [digits |-> Decimal(size_k), unit |-> "K"]]

Assign(name, value) == [LdStmt("assign", name) EXCEPT !.value = value]

Section(name, at, body, region) ==
    [LdStmt("section", name) EXCEPT !.at = at, !.body = body,
                                    !.region = region]

Keep(pattern) == <<"keep", pattern, "">>

Input(pattern) == <<"input", pattern, "">>

Set(symbol, value) == <<"assign", symbol, value>>

\* MEMORY { ... }
MemoryMap(flash_k, ram_k) ==
    << Region("FLASH", "rx", "0x08000000", flash_k),
       Region("RAM", "xrw", "0x20000000", ram_k) >>

\* a variant that does not define the stack top
ScriptSymbolsNoStack ==
    << Assign("_Min_Heap_Size", "0x200"),
       Assign("_Min_Stack_Size", "0x400") >>

\* the symbols assigned between MEMORY and SECTIONS
ScriptSymbols ==
    << Assign("_estack", "ORIGIN(RAM) + LENGTH(RAM)"),
       Assign("_Min_Heap_Size", "0x200"),
       Assign("_Min_Stack_Size", "0x400") >>

\* SECTIONS { ... }
OutputSections ==
    << Section(".isr_vector", "", <<Keep("*(.isr_vector)")>>, "FLASH"),
       Section(".text", "",
               <<Input("*(.text*)"), Input("*(.rodata*)"),
                 Set(".", "ALIGN(4)"), Set("_etext", ".")>>, "FLASH"),
       Section(".init", "", <<Keep("*(.init)")>>, "FLASH"),
       Section(".fini", "", <<Keep("*(.fini)")>>, "FLASH"),
       Section(".init_array", "", <<Keep("*(.init_array*)")>>, "FLASH"),
       Section(".fini_array", "", <<Keep("*(.fini_array*)")>>, "FLASH"),
       Section(".data", "_etext",
               <<Set("_sdata", "."), Input("*(.data*)"),
                 Set(".", "ALIGN(4)"), Set("_edata", ".")>>, "RAM"),
       Section(".bss", "",
               <<Set("_sbss", "."), Input("*(.bss*)"), Input("*(COMMON)"),
                 Set(".", "ALIGN(4)"), Set("_ebss", ".")>>, "RAM"),
       Section("._user_heap_stack", "",
               <<Set(".", "ALIGN(8)"), Set(".", ". + _Min_Heap_Size"),
                 Set(".", ". + _Min_Stack_Size"), Set(".", "ALIGN(8)")>>,
               "RAM"),
       Section("/DISCARD/", "", <<Input("*(.ARM.*)")>>, "") >>

\* a variant that places .bss before .data when flash is larger than 512 KB
GenLinkerScriptBssFirst(flash_k, ram_k) ==
    MemoryMap(flash_k, ram_k) \o ScriptSymbols
        \o (IF flash_k <= 512 THEN OutputSections
            ELSE SubSeq(OutputSections, 1, 6)
                    \o <<OutputSections[8], OutputSections[7]>>
                    \o SubSeq(OutputSections, 9, 10))

_gen_linker_script(flash_k, ram_k) ==
    MemoryMap(flash_k, ram_k) \o ScriptSymbols \o OutputSections

(***************************************************************************)
(* The microcontroller that runs the firmware: a Cortex-M core executing   *)
(* the statements of the generated startup code.                           *)
(*   image   the chip whose startup.s and link.ld the firmware was built   *)
(*           from;  pc  the statement of that text about to be executed,   *)
(*           0 while the core is off                                       *)
(*   sp, r, lt   stack pointer, r0..r3, and "less than" as cmp left it     *)
(*   sym     the addresses the linker gave the script's symbols            *)
(*   ram     the words of [_sdata, _ebss)                                  *)
(*   hook    whether a strong SystemInit is linked, or the weak one only   *)
(*   inside  "startup", or the function outside the startup code that is   *)
(*           running; lr its return statement                              *)
(*   calls   the functions called with bl so far                           *)
(***************************************************************************)
\* the microcontroller before it is started
PowerOff == [pc |-> 0]

\* ORIGIN of FLASH and of RAM in the linker script: 0x08000000, 0x20000000
FlashOrigin == 134217728
RamOrigin == 536870912

\* the words of flash before _etext: vector table, code and constants
CodeWords == 256

\* what a register or a RAM word holds before anything was written to it
Junk == -1

Registers == {"r0", "r1", "r2", "r3"}

\* the statements of a section: those after its .section line, up to the
\* next .section line
SectionStart(text, name) ==
    CHOOSE i \in 1..Len(text) :
        text[i].op = ".section" /\ text[i].args[1] = name

SectionEnd(text, start) ==
    IF \E j \in (start + 1)..Len(text) : text[j].op = ".section"
    THEN (CHOOSE j \in (start + 1)..Len(text) :
            /\ text[j].op = ".section"
            /\ \A k \in (start + 1)..(j - 1) : text[k].op # ".section") - 1
    ELSE Len(text)

SectionLines(text, name) ==
    SubSeq(text, SectionStart(text, name) + 1,
           SectionEnd(text, SectionStart(text, name)))

\* the words a sequence of statements lays down, in order
RECURSIVE Words(_)
Words(lines) ==
    IF lines = <<>> THEN <<>>
    ELSE (IF Head(lines).op = ".word" THEN Head(lines).args ELSE <<>>)
            \o Words(Tail(lines))

VectorTable(text) == Words(SectionLines(text, ".isr_vector"))

\* the statement that carries a label
LabelIndex(text, name) == CHOOSE i \in 1..Len(text) : text[i].label = name

\* numeric local labels: "2f" is the next label 2, "1b" the last label 1
LocalRefs == {"1b", "2f", "3b", "4f"}

LocalLabel(ref) ==
    CASE ref = "1b" -> "1" [] ref = "2f" -> "2"
      [] ref = "3b" -> "3" [] ref = "4f" -> "4"

Forward(ref) == ref \in {"2f", "4f"}

LocalTarget(text, pc, ref) ==
    IF Forward(ref)
    THEN CHOOSE i \in (pc + 1)..Len(text) :
            /\ text[i].label = LocalLabel(ref)
            /\ \A j \in (pc + 1)..(i - 1) : text[j].label # LocalLabel(ref)
    ELSE CHOOSE i \in 1..pc :
            /\ text[i].label = LocalLabel(ref)
            /\ \A j \in (i + 1)..pc : text[j].label # LocalLabel(ref)

\* where a branch goes: "." is the branch itself
BranchTarget(text, pc, ref) ==
    IF ref = "." THEN pc
    ELSE IF ref \in LocalRefs THEN LocalTarget(text, pc, ref)
    ELSE LabelIndex(text, ref)

\* .thumb_set name, target: the symbol name is given target's address
AliasTarget(text, name) ==
    text[CHOOSE i \in 1..Len(text) :
            text[i].op = ".thumb_set" /\ text[i].args[1] = name].args[2]

\* the next statement that is an instruction: labels on lines of their own
\* and directives lay down no code
IsCode(line) ==
    line.op \in {"ldr", "str", "mov", "movs", "cmp", "b", "blt", "bl"}

RECURSIVE NextCode(_, _)
NextCode(text, i) ==
    IF i > Len(text) \/ IsCode(text[i]) THEN i ELSE NextCode(text, i + 1)

\* a word read from memory: RAM, or the flash image of .data, whose i-th
\* word is i
ReadWord(m, a) ==
    IF a \in DOMAIN m.ram THEN m.ram[a] ELSE (a - m.sym["_etext"]) \div 4 + 1

\* "#4", "#0"
Immediate(tok) == CASE tok = "#4" -> 4 [] tok = "#0" -> 0

\* "[r2]"
BaseRegister(tok) == CASE tok = "[r0]" -> "r0" [] tok = "[r2]" -> "r2"

\* the statement after pc is executed next
Advance(m, text) == [m EXCEPT !.pc = NextCode(text, m.pc + 1)]

\* bl: a symbol with a strong definition linked in is that function; one
\* without is what the startup code's .thumb_set makes it
Call(m, text, fn) ==
    IF fn \in m.strong
    THEN [m EXCEPT !.calls = Append(@, fn), !.inside = fn,
                   !.lr = NextCode(text, m.pc + 1)]
    ELSE [m EXCEPT !.calls = Append(@, fn),
                   !.lr = NextCode(text, m.pc + 1),
                   !.pc = LabelIndex(text, AliasTarget(text, fn))]

\* one instruction of the startup code
Exec(m, text, op, a) ==
    CASE op = "ldr" /\ a[2] = "=" ->
            Advance([m EXCEPT !.r[a[1]] = m.sym[a[3]]], text)
      [] op = "ldr" /\ a[2] # "=" ->
            Advance([m EXCEPT !.r[a[1]] = ReadWord(m, m.r[BaseRegister(a[2])]),
                              !.r[BaseRegister(a[2])] = @ + Immediate(a[3])],
                    text)
      [] op = "str" ->
            Advance([m EXCEPT !.ram[m.r[BaseRegister(a[2])]] = m.r[a[1]],
                              !.r[BaseRegister(a[2])] = @ + Immediate(a[3])],
                    text)
      [] op = "mov" -> Advance([m EXCEPT !.sp = m.r[a[2]]], text)
      [] op = "movs" -> Advance([m EXCEPT !.r[a[1]] = Immediate(a[2])], text)
      [] op = "cmp" -> Advance([m EXCEPT !.lt = (m.r[a[1]] < m.r[a[2]])], text)
      [] op = "b" -> [m EXCEPT !.pc = BranchTarget(text, m.pc, a[1])]
      [] op = "blt" ->
            IF m.lt THEN [m EXCEPT !.pc = BranchTarget(text, m.pc, a[1])]
                    ELSE Advance(m, text)
      [] op = "bl" -> Call(m, text, a[1])

\* the core out of reset: it loads sp from the first word of the vector
\* table and starts at the handler the second word names
Booted(image, text, vectors, sym, ramWords, strong) ==
    [pc |-> NextCode(text, LabelIndex(text, vectors[2])), image |-> image,
     sp |-> sym[vectors[1]], r |-> [x \in Registers |-> Junk], lt |-> FALSE,
     sym |-> sym, ram |-> [a \in ramWords |-> Junk], strong |-> strong,
     inside |-> "startup", lr |-> 0, calls |-> <<>>]

\* config.DEFAULT_CHIP = "STM32F103C8T6"
DEFAULT_CHIP == STM32F \o <<"1","0","3","C","8","T","6">>

\* a fallback of set_chip other than the one the code names
DefaultInfoF4 == KeyIndex(STM32F \o <<"4","0","1","C","C">>)

\* CHIP_DB["STM32F103C8"], the fallback of set_chip
DefaultInfo == KeyIndex(STM32F \o <<"1","0","3","C","8">>)

(***************************************************************************)
(* HAL source allow-lists                                                  *)
(***************************************************************************)
Families == {"f0", "f1", "f3", "f4"}
NoFamily == "None"

_FAMILY_HAL_FILES ==
    [f \in Families |->
       CASE f = "f1" ->
              << "stm32f1xx_hal.c", "stm32f1xx_hal_cortex.c",
                 "stm32f1xx_hal_rcc.c", "stm32f1xx_hal_rcc_ex.c",
                 "stm32f1xx_hal_gpio.c", "stm32f1xx_hal_gpio_ex.c",
                 "stm32f1xx_hal_uart.c", "stm32f1xx_hal_usart.c",
                 "stm32f1xx_hal_tim.c", "stm32f1xx_hal_tim_ex.c",
                 "stm32f1xx_hal_adc.c", "stm32f1xx_hal_adc_ex.c",
                 "stm32f1xx_hal_i2c.c",
                 "stm32f1xx_hal_dma.c",
                 "stm32f1xx_hal_pwr.c",
                 "stm32f1xx_hal_flash.c", "stm32f1xx_hal_flash_ex.c",
                 "stm32f1xx_hal_exti.c",
                 "stm32f1xx_hal_spi.c",
                 "system_stm32f1xx.c" >>
         [] f = "f4" ->
              << "stm32f4xx_hal.c", "stm32f4xx_hal_cortex.c",
                 "stm32f4xx_hal_rcc.c", "stm32f4xx_hal_rcc_ex.c",
                 "stm32f4xx_hal_gpio.c",
                 "stm32f4xx_hal_uart.c", "stm32f4xx_hal_usart.c",
                 "stm32f4xx_hal_tim.c", "stm32f4xx_hal_tim_ex.c",
                 "stm32f4xx_hal_adc.c", "stm32f4xx_hal_adc_ex.c",
                 "stm32f4xx_hal_i2c.c", "stm32f4xx_hal_i2c_ex.c",
                 "stm32f4xx_hal_dma.c", "stm32f4xx_hal_dma_ex.c",
                 "stm32f4xx_hal_pwr.c", "stm32f4xx_hal_pwr_ex.c",
                 "stm32f4xx_hal_flash.c", "stm32f4xx_hal_flash_ex.c",
                 "stm32f4xx_hal_exti.c",
                 "stm32f4xx_hal_spi.c",
                 "system_stm32f4xx.c" >>
         [] f = "f0" ->
              << "stm32f0xx_hal.c", "stm32f0xx_hal_cortex.c",
                 "stm32f0xx_hal_rcc.c", "stm32f0xx_hal_rcc_ex.c",
                 "stm32f0xx_hal_gpio.c",
                 "stm32f0xx_hal_uart.c", "stm32f0xx_hal_usart.c",
                 "stm32f0xx_hal_tim.c", "stm32f0xx_hal_tim_ex.c",
                 "stm32f0xx_hal_adc.c", "stm32f0xx_hal_adc_ex.c",
                 "stm32f0xx_hal_i2c.c", "stm32f0xx_hal_i2c_ex.c",
                 "stm32f0xx_hal_dma.c",
                 "stm32f0xx_hal_pwr.c", "stm32f0xx_hal_pwr_ex.c",
                 "stm32f0xx_hal_flash.c", "stm32f0xx_hal_flash_ex.c",
                 "stm32f0xx_hal_spi.c",
                 "system_stm32f0xx.c" >>
         [] f = "f3" ->
              << "stm32f3xx_hal.c", "stm32f3xx_hal_cortex.c",
                 "stm32f3xx_hal_rcc.c", "stm32f3xx_hal_rcc_ex.c",
                 "stm32f3xx_hal_gpio.c",
                 "stm32f3xx_hal_uart.c", "stm32f3xx_hal_usart.c",
                 "stm32f3xx_hal_tim.c", "stm32f3xx_hal_tim_ex.c",
                 "stm32f3xx_hal_adc.c", "stm32f3xx_hal_adc_ex.c",
                 "stm32f3xx_hal_i2c.c", "stm32f3xx_hal_i2c_ex.c",
                 "stm32f3xx_hal_dma.c",
                 "stm32f3xx_hal_pwr.c", "stm32f3xx_hal_pwr_ex.c",
                 "stm32f3xx_hal_flash.c", "stm32f3xx_hal_flash_ex.c",
                 "stm32f3xx_hal_spi.c",
                 "system_stm32f3xx.c" >>]

\* _FAMILY_HAL_FILES.get(family, [])
NeededFiles(family) ==
    IF family \in Families THEN _FAMILY_HAL_FILES[family] ELSE <<>>

Range(s) == {s[i] : i \in DOMAIN s}

(***************************************************************************)
(* The HAL installation under HAL_DIR that the session runs against: Inc   *)
(* holds the family header of f1 and of no other family, one CMSIS include *)
(* directory exists, and Src holds at most the two files of SrcFiles.      *)
(***************************************************************************)
HalHeaders == {"f1"}
CmsisDirs == {"CMSIS/Include"}
SrcFiles == {"stm32f1xx_hal.c", "system_stm32f1xx.c"}

Times == 0..MaxTime
\* mtime of a file that does not exist
Absent == -1

\* an object file: its st_mtime and the flags of the compiler run that wrote it
NoObj == [mtime |-> Absent, cpu |-> "", fpu |-> FALSE, define |-> ""]

\* an archive member: the flags of the object that was archived, and whether
\* the object file is still the one that was archived
NoMember == [cpu |-> "", fpu |-> FALSE, define |-> "", current |-> FALSE]

\* child-process results: exit 0, non-zero exit, TimeoutExpired, another exception
Outcomes == {"ok", "nonzero", "timeout", "oserror"}
\* the failures precompile_hal tells apart: a non-zero exit, and an exception
\* of any kind (TimeoutExpired among them), caught by "except Exception"
Failures == {"nonzero", "timeout"}

VARIABLES
    \* Compiler's fields
    has_gcc, has_specs, has_hal, has_hal_lib, hal_inc_dirs, hal_src_files,
    chip_info, current_family,
    \* HAL_DIR / "Src" / f: st_mtime, or Absent
    src,
    \* BUILD_DIR / hal_obj_<family> / <stem>.o of each source file
    obj,
    \* BUILD_DIR / libstm32hal_<family>.a: whether it exists, and its members
    lib,
    \* BUILD_DIR / firmware.bin exists
    bin,
    \* BUILD_DIR / link.ld and BUILD_DIR / startup.s: the chip whose text
    \* set_chip wrote to the file (see LinkLdText, StartupText), or NoChip
    \* while the file does not exist
    link_ld, startup_s,
    \* the microcontroller that runs the startup code
    mcu,
    \* the call that was just made and what it returned
    ret,
    \* the resolver's input and result
    chip_name, resolved

sess_vars == <<has_gcc, has_specs, has_hal, has_hal_lib, hal_inc_dirs,
               hal_src_files, chip_info, current_family>>
disk_vars == <<src, obj, lib, bin, link_ld, startup_s>>
vars == <<sess_vars, disk_vars, ret, chip_name, resolved, mcu>>

\* the session as one value, for the methods below
Self ==
    [has_gcc |-> has_gcc, has_specs |-> has_specs, has_hal |-> has_hal,
     has_hal_lib |-> has_hal_lib, hal_inc_dirs |-> hal_inc_dirs,
     hal_src_files |-> hal_src_files, chip_info |-> chip_info,
     current_family |-> current_family]

\* the build directory as one value
Disk == [obj |-> obj, lib |-> lib, bin |-> bin]

\* what a call returns and which child processes it ran:
\*   value     set_chip's and check's chip (a CHIP_DB reference)
\*   selected  precompile_hal's to_compile; invoked: the units the compiler ran on
\*   ar        the number of archiver runs
\*   err       the result of the child process that failed
\*   mode, srcs, libs   compile's command: path, HAL sources passed, archive linked
\*   procs     the child processes compile started, in order
\*   ok, msg, bin_path, bin_size   the result dictionary
\*   unlinked  whether compile found a firmware.bin to unlink
\*   args, text   a generator's arguments and the text it returned
NoCall ==
    [op |-> "none", ok |-> FALSE, raised |-> FALSE, value |-> NoChip,
     selected |-> <<>>, invoked |-> <<>>, ar |-> 0, err |-> "none",
     mode |-> "none", srcs |-> <<>>, libs |-> "",
     msg |-> "", bin_path |-> "None", bin_size |-> 0,
     procs |-> <<>>, unlinked |-> FALSE, args |-> <<>>, text |-> <<>>]

(***************************************************************************)
(* Compiler._find_hal                                                      *)
(***************************************************************************)
\* a variant that lists the files found last to first
ExistingFilesReversed(needed) ==
    LET OnDisk(f) == f \in SrcFiles /\ src[f] # Absent
        found == SelectSeq(needed, OnDisk)
    IN  [i \in 1..Len(found) |-> found[Len(found) + 1 - i]]

\* [str(hal_src / f) for f in needed if (hal_src / f).exists()]
ExistingFiles(needed) ==
    LET OnDisk(f) == f \in SrcFiles /\ src[f] # Absent
    IN  SelectSeq(needed, OnDisk)

\* the two CMSIS candidates, appended in this order when they exist
CmsisPaths == <<"CMSIS/Include", "CMSIS/Core/Include">>
InCmsisDirs(p) == p \in CmsisDirs

\* a variant that leaves has_hal_lib as it was
FindHalKeepsReady(self, family) ==
    IF family \notin HalHeaders
    THEN [self EXCEPT !.has_hal = FALSE,
                      !.hal_inc_dirs = <<>>, !.hal_src_files = <<>>]
    ELSE [self EXCEPT !.has_hal = TRUE,
                      !.hal_inc_dirs = <<"Inc">> \o SelectSeq(CmsisPaths, InCmsisDirs),
                      !.hal_src_files = ExistingFiles(NeededFiles(family))]

_find_hal(self, family) ==
    IF family \notin HalHeaders
    THEN [self EXCEPT !.has_hal_lib = FALSE, !.has_hal = FALSE,
                      !.hal_inc_dirs = <<>>, !.hal_src_files = <<>>]
    ELSE [self EXCEPT !.has_hal_lib = FALSE, !.has_hal = TRUE,
                      !.hal_inc_dirs = <<"Inc">> \o SelectSeq(CmsisPaths, InCmsisDirs),
                      !.hal_src_files = ExistingFiles(NeededFiles(family))]

\* chip names the session is given
SessionChips ==
    { DEFAULT_CHIP,
      STM32F \o <<"1","0","3","R","E">>,
      STM32F \o <<"4","0","7","V","G","T","6">> }

\* characters appended to a table key
SuffixChars == {"T", "6", "t", "-", "B"}
Suffixes == UNION {[1..n -> SuffixChars] : n \in 0..MaxSuffix}

\* every leading part of a table key, the keys themselves included
KeyPrefixes ==
    UNION {{SubSeq(CHIP_DB[i].key, 1, n) : n \in 0..Len(CHIP_DB[i].key)} :
              i \in ChipIndexes}

\* names no table key is part of, and names only the family pattern matches
OtherNames ==
    { STM32 \o <<"Q","9","9","9","Z","Z">>,
      STM32 \o <<"Q","9","9","9">>,
      STM32F \o <<"9","9","9","Z","Z">>,
      <<"G","D","3","2","F","1","0","3","C","8">>,
      <<"s","t","m","3","2","f","1","0","3","c","8","t","6">>,
      <<"S","T","M","3","2","-","F","4","0","7"," ","V","G">>,
      <<"s","t","m","3","2","f","1","0","3"," ","M","e","d","i","u","m",
        "-","d","e","n","s","i","t","y">>,
      STM32F \o <<"1","0","3","R","E","T","6","T","R">>,
      STM32F \o <<"4","0","7","Z","Z","Z","Z">> }

\* the names _lookup_chip and set_chip are given
ChipNames ==
    {CHIP_DB[i].key \o s : i \in ChipIndexes, s \in Suffixes}
      \cup KeyPrefixes \cup OtherNames \cup SessionChips

(***************************************************************************)
(* Compiler.set_chip                                                       *)
(***************************************************************************)
\* info = _lookup_chip(chip_name), or CHIP_DB["STM32F103C8"] when it is None
InfoOrDefault(found) == IF found = NoChip THEN DefaultInfo ELSE found

\* self._chip_info = info, and _find_hal only if info["family"] differs from
\* self._current_family
SetInfo(self, info, family) ==
    IF family # self.current_family
    THEN _find_hal([self EXCEPT !.chip_info = info, !.current_family = family],
                   family)
    ELSE [self EXCEPT !.chip_info = info]

SetFound(self, info) == SetInfo(self, info, CHIP_DB[info].family)

\* the texts set_chip writes before that, from info alone: lines 509-514
LinkLdFor ==
    [i \in ChipIndexes |-> _gen_linker_script(CHIP_DB[i].flash_k, CHIP_DB[i].ram_k)]

StartupFor ==
    [i \in ChipIndexes |-> _gen_startup(CHIP_DB[i].cpu, IrqNames(CHIP_DB[i].family))]

NoFile == <<>>

\* the text of a file written for the chip info
LinkLd(info) == IF info = NoChip THEN NoFile ELSE LinkLdFor[info]

Startup(info) == IF info = NoChip THEN NoFile ELSE StartupFor[info]

\* what BUILD_DIR / link.ld and BUILD_DIR / startup.s hold
LinkLdText == LinkLd(link_ld)

StartupText == Startup(startup_s)

set_chip(self, chip) == SetFound(self, InfoOrDefault(_lookup_chip(chip)))

(***************************************************************************)
(* Compiler.precompile_hal                                                 *)
(***************************************************************************)
\* self._current_family or "f1"
FamilyOrF1(self) ==
    IF self.current_family = NoFamily THEN "f1" ELSE self.current_family

\* cpu_flags and -D<define> of the current chip, as an object records them
ChipFlags(self, t) ==
    [mtime |-> t, cpu |-> CHIP_DB[self.chip_info].cpu,
     fpu |-> CHIP_DB[self.chip_info].fpu,
     define |-> CHIP_DB[self.chip_info].define]

\* a staleness test that takes an object as old as its source for stale
IsStaleStrict(objs, f) ==
    objs[f].mtime = Absent \/ objs[f].mtime <= src[f]

\* a staleness test that ignores the modification times
IsStaleMissing(objs, f) ==
    objs[f].mtime = Absent

\* not obj.exists() or obj.stat().st_mtime < src_path.stat().st_mtime
IsStale(objs, f) ==
    objs[f].mtime = Absent \/ objs[f].mtime < src[f]

\* src_path.stat() of a deleted source, reached when its object exists
StatRaises(objs, files) ==
    \E f \in Range(files) : objs[f].mtime # Absent /\ src[f] = Absent

\* a selection that recompiles every listed file
ToCompileAll(objs, files) == files

\* to_compile: the listed files whose object is stale, in list order
ToCompile(objs, files) ==
    LET Stale(f) == IsStale(objs, f)
    IN  SelectSeq(files, Stale)

\* the newest modification time on disk
LatestMtime ==
    LET all == {src[f] : f \in SrcFiles} \cup {obj[f].mtime : f \in SrcFiles}
    IN  CHOOSE m \in all : \A x \in all : x <= m

\* st_mtime of a file written now: that of the newest file, or later (no
\* file on disk carries a time ahead of the clock)
WriteTimesFrom(latest) == {t \in Times : latest <= t /\ t <= latest + 1}
WriteTimes == WriteTimesFrom(LatestMtime)

\* the archive after "ar rcs lib existing": members replaced or added
Archived(libs, family, objs, existing) ==
    [libs EXCEPT ![family] =
        [exists |-> TRUE,
         members |-> [f \in SrcFiles |->
                        IF f \in existing
                        THEN [cpu |-> objs[f].cpu, fpu |-> objs[f].fpu,
                              define |-> objs[f].define, current |-> TRUE]
                        ELSE libs[family].members[f]]]]

\* the archives once the compiler has rewritten the objects of written
Outdated(libs, family, written) ==
    [libs EXCEPT ![family].members =
        [f \in SrcFiles |->
            IF f \in written /\ libs[family].members[f] # NoMember
            THEN [libs[family].members[f] EXCEPT !.current = FALSE]
            ELSE libs[family].members[f]]]

\* whether the call gets as far as running the compiler or the archiver
RunsTools(self, d) ==
    /\ self.has_hal /\ self.has_gcc /\ self.chip_info # NoChip
    /\ ~StatRaises(d.obj, self.hal_src_files)
    /\ ~(ToCompile(d.obj, self.hal_src_files) = <<>> /\ d.lib[FamilyOrF1(self)].exists)

\* The child-process results of one call and the st_mtime t its objects get
\* (the call ends within the tick of the newest file): failAt = 0 when every
\* compiler run exits 0, else the position in to_compile of the first run
\* that fails, as failKind; a compiler run on a deleted source fails.  A
\* result the call never asks for is fixed, so that every choice is a
\* different run.
NoChoice == [failAt |-> 0, failKind |-> "nonzero", arOut |-> "ok", t |-> 0]

ChoicesFor(to_compile, no_files, times) ==
    LET gone == {k \in DOMAIN to_compile : src[to_compile[k]] = Absent}
        reach == {k \in DOMAIN to_compile : \A j \in gone : k <= j}
    IN  {[NoChoice EXCEPT !.failAt = k, !.failKind = fk, !.t = t] :
             k \in reach, fk \in Failures, t \in times}
          \cup
        (IF gone # {} THEN {}
         ELSE {[NoChoice EXCEPT !.arOut = a, !.t = t] :
                  a \in (IF no_files THEN {"ok"} ELSE {"ok"} \cup Failures),
                  t \in times})

PrecompileChoices(self, d, times) ==
    IF RunsTools(self, d)
    THEN ChoicesFor(ToCompile(d.obj, self.hal_src_files),
                    self.hal_src_files = <<>>, times)
    ELSE {NoChoice}

\* the runs of the compiler and of the archiver, once to_compile is built
PrecompileRuns(self, d, c, family, to_compile, call) ==
    LET n == IF c.failAt = 0 THEN Len(to_compile) ELSE c.failAt - 1
        written == {to_compile[k] : k \in 1..n}
        objs == [f \in SrcFiles |->
                    IF f \in written THEN ChipFlags(self, c.t) ELSE d.obj[f]]
        existing == {f \in Range(self.hal_src_files) : objs[f].mtime # Absent}
        d1 == [d EXCEPT !.obj = objs, !.lib = Outdated(d.lib, family, written)]
        tried == [call EXCEPT !.selected = to_compile,
                              !.invoked = SubSeq(to_compile, 1,
                                   IF c.failAt = 0 THEN Len(to_compile) ELSE c.failAt)]
    IN  IF c.failAt # 0
        THEN [s |-> self, d |-> d1, r |-> [tried EXCEPT !.err = c.failKind]]
        ELSE IF existing = {}
        THEN [s |-> self, d |-> d1, r |-> [tried EXCEPT !.err = "no_objects"]]
        ELSE IF c.arOut # "ok"
        THEN [s |-> self, d |-> d1, r |-> [tried EXCEPT !.ar = 1, !.err = c.arOut]]
        ELSE [s |-> [self EXCEPT !.has_hal_lib = TRUE],
              d |-> [d1 EXCEPT !.lib = Archived(d1.lib, family, objs, existing)],
              r |-> [tried EXCEPT !.ar = 1, !.ok = TRUE]]

\* precompile_hal without the return on "not to_compile and lib_path.exists()"
PrecompileFromNoShortcut(self, d, c, family, to_compile, call) ==
    IF ~self.has_hal \/ ~self.has_gcc \/ self.chip_info = NoChip
    THEN [s |-> self, d |-> d, r |-> [call EXCEPT !.err = "not_ready"]]
    ELSE IF StatRaises(d.obj, self.hal_src_files)
    THEN [s |-> self, d |-> d, r |-> [call EXCEPT !.raised = TRUE, !.err = "oserror"]]
    ELSE PrecompileRuns(self, d, c, family, to_compile, call)

\* the three early returns, then the compiler and archiver runs
PrecompileFrom(self, d, c, family, to_compile, call) ==
    IF ~self.has_hal \/ ~self.has_gcc \/ self.chip_info = NoChip
    THEN [s |-> self, d |-> d, r |-> [call EXCEPT !.err = "not_ready"]]
    ELSE IF StatRaises(d.obj, self.hal_src_files)
    THEN [s |-> self, d |-> d, r |-> [call EXCEPT !.raised = TRUE, !.err = "oserror"]]
    ELSE IF to_compile = <<>> /\ d.lib[family].exists
    THEN [s |-> [self EXCEPT !.has_hal_lib = TRUE], d |-> d,
          r |-> [call EXCEPT !.ok = TRUE]]
    ELSE PrecompileRuns(self, d, c, family, to_compile, call)

precompile_hal(self, d, c) ==
    PrecompileFrom(self, d, c, FamilyOrF1(self),
                   ToCompile(d.obj, self.hal_src_files),
                   [NoCall EXCEPT !.op = "precompile_hal"])

(***************************************************************************)
(* Compiler.check                                                          *)
(***************************************************************************)
\* the chip check() sets: the one given, or the default when none is set yet
CheckChip(self, name) ==
    IF name # <<>> THEN set_chip(self, name)
    ELSE IF self.chip_info = NoChip THEN set_chip(self, DEFAULT_CHIP)
    ELSE self

\* the two probes: gcc --version sets has_gcc on exit 0 only; the specs probe
\* runs when has_gcc is set, and an exception there leaves has_specs as it was
Probed(self, gccOut, specsOut) ==
    LET s1 == IF gccOut = "ok" THEN [self EXCEPT !.has_gcc = TRUE] ELSE self
    IN  IF s1.has_gcc /\ specsOut \in {"ok", "nonzero"}
        THEN [s1 EXCEPT !.has_specs = (specsOut = "ok")]
        ELSE s1

\* what check() leaves once the chip is set and the probes have run
CheckFrom(s2, d, c) ==
    IF s2.has_hal /\ s2.has_gcc
    THEN precompile_hal(s2, d, c)
    ELSE [s |-> s2, d |-> d, r |-> NoCall]

CheckResult(p) ==
    [s |-> p.s, d |-> p.d,
     r |-> [p.r EXCEPT !.op = "check", !.ok = ~p.r.raised,
                       !.value = p.s.chip_info]]

check(self, d, name, gccOut, specsOut, c) ==
    CheckResult(CheckFrom(Probed(CheckChip(self, name), gccOut, specsOut), d, c))

(***************************************************************************)
(* Compiler.compile                                                        *)
(***************************************************************************)
\* a mode choice that never links the archive
CompileModeNoFast(self) ==
    IF self.has_hal THEN "slow" ELSE "syntax"

\* a variant that links whether or not there is a HAL
CompileModeAlwaysLink(self) ==
    IF self.has_hal_lib THEN "fast" ELSE "slow"

\* fast path, slow path or syntax check, from the session's flags
CompileMode(self) ==
    IF self.has_hal
    THEN IF self.has_hal_lib THEN "fast" ELSE "slow"
    ELSE "syntax"

\* a variant whose compiler run is started a second time
CommandTwice(self) ==
    LET mode == CompileMode(self)
    IN  [NoCall EXCEPT
            !.op = "compile", !.mode = mode, !.procs = <<"gcc", "gcc">>,
            !.srcs = IF mode = "slow" THEN self.hal_src_files ELSE <<>>,
            !.libs = IF mode = "fast" THEN FamilyOrF1(self) ELSE ""]

\* the compiler command: the HAL sources it passes and the archive it links
Command(self) ==
    LET mode == CompileMode(self)
    IN  [NoCall EXCEPT
            !.op = "compile", !.mode = mode, !.procs = <<"gcc">>,
            !.srcs = IF mode = "slow" THEN self.hal_src_files ELSE <<>>,
            !.libs = IF mode = "fast" THEN FamilyOrF1(self) ELSE ""]

\* exit 0 needs every file the command names: the HAL sources, the archive
LinkPossible(self, d, gccOut) ==
    gccOut = "ok" =>
        /\ CompileMode(self) = "slow" =>
              \A f \in Range(self.hal_src_files) : src[f] # Absent
        /\ CompileMode(self) = "fast" => d.lib[FamilyOrF1(self)].exists

\* the compiler run and what follows it, once main.c is written, the old
\* firmware.elf and firmware.bin are unlinked and the command is built
CompileFrom(s1, d1, cmd, gccOut, copyOut) ==
    IF ~s1.has_gcc
    THEN [s |-> s1, d |-> d1,
          r |-> [NoCall EXCEPT !.op = "compile", !.msg = "no_gcc"]]
    ELSE IF gccOut = "nonzero"
    THEN [s |-> s1, d |-> d1, r |-> [cmd EXCEPT !.err = gccOut, !.msg = "diagnostics"]]
    ELSE IF gccOut = "timeout"
    THEN [s |-> s1, d |-> d1, r |-> [cmd EXCEPT !.err = gccOut, !.msg = "timeout"]]
    ELSE IF gccOut = "oserror"
    THEN [s |-> s1, d |-> d1, r |-> [cmd EXCEPT !.err = gccOut, !.msg = "exception"]]
    ELSE IF ~s1.has_hal
    THEN [s |-> s1, d |-> d1,
          r |-> [cmd EXCEPT !.ok = TRUE, !.msg = "syntax_ok"]]
    ELSE IF copyOut = "timeout"
    THEN [s |-> s1, d |-> d1,
          r |-> [cmd EXCEPT !.err = copyOut, !.msg = "timeout",
                            !.procs = <<"gcc", "objcopy">>]]
    ELSE IF copyOut = "oserror"
    THEN [s |-> s1, d |-> d1,
          r |-> [cmd EXCEPT !.err = copyOut, !.msg = "exception",
                            !.procs = <<"gcc", "objcopy">>]]
    ELSE [s |-> s1, d |-> [d1 EXCEPT !.bin = (copyOut = "ok")],
          r |-> [cmd EXCEPT !.ok = TRUE, !.msg = "built",
                            !.procs = <<"gcc", "objcopy">>,
                            !.bin_path = "firmware.bin",
                            !.bin_size = IF copyOut = "ok" THEN 1 ELSE 0]]

\* the chip compile() builds for: the default when none is set yet
CompileChip(self) ==
    IF self.chip_info = NoChip THEN set_chip(self, DEFAULT_CHIP) ELSE self

\* a variant that names firmware.bin in every result
CompileWithPath(s1, d, gccOut, copyOut) ==
    [CompileFrom(s1, [d EXCEPT !.bin = FALSE], Command(s1), gccOut, copyOut)
        EXCEPT !.r.bin_path = "firmware.bin", !.r.unlinked = d.bin]

\* a variant that leaves the old firmware.bin in place
CompileWithOldBin(s1, d, gccOut, copyOut) ==
    [CompileFrom(s1, d, Command(s1), gccOut, copyOut)
        EXCEPT !.r.unlinked = d.bin]

\* main.c is written, firmware.elf and firmware.bin are unlinked (unlinked
\* records that there was a firmware.bin), then the command is built and run
CompileWith(s1, d, gccOut, copyOut) ==
    [CompileFrom(s1, [d EXCEPT !.bin = FALSE], Command(s1), gccOut, copyOut)
        EXCEPT !.r.unlinked = d.bin]

\* a variant that does not look at has_gcc
CompileUnchecked(self, d, gccOut, copyOut) ==
    [CompileWith([CompileChip(self) EXCEPT !.has_gcc = TRUE], d, gccOut, copyOut)
        EXCEPT !.s.has_gcc = self.has_gcc]

compile(self, d, gccOut, copyOut) ==
    CompileWith(CompileChip(self), d, gccOut, copyOut)

(***************************************************************************)
(* The message compile builds from the compiler's stderr when it exits     *)
(* non-zero.  A text is the sequence of its characters.                    *)
(***************************************************************************)
\* "\n"
NL == "\n"

\* k in l
Contains(l, k) ==
    \E i \in 0..(Len(l) - Len(k)) : SubSeq(l, i + 1, i + Len(k)) = k

\* err.split('\n'): the runs of characters between the newlines, the k-th
\* from after the newline k - 1 to before the newline k
Split(text) ==
    LET nls == {i \in 1..Len(text) : text[i] = NL}
        NthOf(k) == CHOOSE p \in nls : Cardinality({q \in nls : q < p}) = k - 1
        LineAt(k) ==
            SubSeq(text,
                   IF k = 1 THEN 1 ELSE NthOf(k - 1) + 1,
                   IF k = Cardinality(nls) + 1 THEN Len(text) ELSE NthOf(k) - 1)
    IN  [k \in 1..(Cardinality(nls) + 1) |-> LineAt(k)]

\* '\n'.join(lines)
RECURSIVE Join(_)
Join(lines) ==
    IF lines = <<>> THEN <<>>
    ELSE IF Len(lines) = 1 THEN lines[1]
    ELSE lines[1] \o <<NL>> \o Join(Tail(lines))

\* s[:n]
Prefix(s, n) == SubSeq(s, 1, IF Len(s) < n THEN Len(s) ELSE n)

\* ['error:', 'undefined reference', 'multiple definition', 'cannot find',
\*  'No such file', 'fatal:']
Markers ==
    << << "e", "r", "r", "o", "r", ":" >>,
       << "u", "n", "d", "e", "f", "i", "n", "e", "d", " ", "r", "e", "f",
          "e", "r", "e", "n", "c", "e" >>,
       << "m", "u", "l", "t", "i", "p", "l", "e", " ", "d", "e", "f", "i",
          "n", "i", "t", "i", "o", "n" >>,
       << "c", "a", "n", "n", "o", "t", " ", "f", "i", "n", "d" >>,
       << "N", "o", " ", "s", "u", "c", "h", " ", "f", "i", "l", "e" >>,
       << "f", "a", "t", "a", "l", ":" >> >>

\* lines[:15] and err[:1000]
LineLimit == 15
CharLimit == 1000

\* any(k in l for k in [...])
HasMarker(l) == \E n \in DOMAIN Markers : Contains(l, Markers[n])

\* short, the message of the failed compile:
\*   lines = [l for l in err.split('\n') if any(k in l for k in [...])]
\*   lines = [l for l in lines if 'collect2:' not in l] or lines
\*   short = '\n'.join(lines[:15]) if lines else err[:1000]
Short(err) ==
    LET NotCollect2(l) == ~Contains(l, << "c", "o", "l", "l", "e", "c", "t", "2", ":" >>)
        marked == SelectSeq(Split(err), HasMarker)
        kept == SelectSeq(marked, NotCollect2)
        lines == IF kept # <<>> THEN kept ELSE marked
    IN  IF lines # <<>> THEN Join(Prefix(lines, LineLimit))
        ELSE Prefix(err, CharLimit)

(***************************************************************************)
(* The session's steps                                                     *)
(***************************************************************************)
\* the fields and files after a call, and what the call returned; set_chip
\* alone assigns self._chip_info, and writes link.ld and startup.s for it
Commit(s, d, r) ==
    /\ has_gcc' = s.has_gcc
    /\ has_specs' = s.has_specs
    /\ has_hal' = s.has_hal
    /\ has_hal_lib' = s.has_hal_lib
    /\ hal_inc_dirs' = s.hal_inc_dirs
    /\ hal_src_files' = s.hal_src_files
    /\ chip_info' = s.chip_info
    /\ current_family' = s.current_family
    /\ obj' = d.obj
    /\ lib' = d.lib
    /\ bin' = d.bin
    /\ link_ld' = s.chip_info
    /\ startup_s' = s.chip_info
    /\ ret' = r
    /\ UNCHANGED <<src, chip_name, resolved, mcu>>

\* Each step computes the call once, as the value p, and stores what it left.
SetChip ==
    \E name \in SessionChips :
        \E s \in {set_chip(Self, name)} :
            Commit(s, Disk, [NoCall EXCEPT !.op = "set_chip", !.ok = TRUE,
                                           !.value = s.chip_info])

PrecompileHal ==
    \E self \in {Self}, d \in {Disk}, times \in {{LatestMtime}} :
        \E c \in PrecompileChoices(self, d, times) :
            \E p \in {precompile_hal(self, d, c)} :
                Commit(p.s, p.d, p.r)

\* the toolchain the session runs against: gcc --version may fail, and the
\* specs probe, when it runs, exits 0
SpecsProbe == "ok"

\* the results of the gcc --version probe that lead to different sessions:
\* has_gcc is never reset, so a failing probe matters only while it is unset
GccProbes(self) == IF self.has_gcc THEN {"ok"} ELSE {"ok", "oserror"}

\* check(chip_name) with a chip name, or with none (the empty name)
Check ==
    \E self \in {Self}, d \in {Disk}, times \in {{LatestMtime}} :
        \E name \in SessionChips \cup {<<>>}, gccOut \in GccProbes(self) :
            \E s2 \in {Probed(CheckChip(self, name), gccOut, SpecsProbe)} :
                \E c \in PrecompileChoices(s2, d, times) :
                    \E p \in {check(self, d, name, gccOut, SpecsProbe, c)} :
                        Commit(p.s, p.d, p.r)

\* the results of the compiler and of objcopy; objcopy runs after a link
CompileChoices(self, d) ==
    IF ~self.has_gcc
    THEN {[gccOut |-> "ok", copyOut |-> "ok"]}
    ELSE {[gccOut |-> g, copyOut |-> "ok"] : g \in Outcomes \ {"ok"}}
           \cup
         (IF ~LinkPossible(self, d, "ok") THEN {}
          ELSE {[gccOut |-> "ok", copyOut |-> o] :
                   o \in (IF self.has_hal THEN Outcomes ELSE {"ok"})})

Compile ==
    \E self \in {Self}, d \in {Disk} :
        \E c \in CompileChoices(CompileChip(self), d) :
            \E p \in {compile(self, d, c.gccOut, c.copyOut)} :
                Commit(p.s, p.d, p.r)

(***************************************************************************)
(* The HAL sources change under the session                                *)
(***************************************************************************)
\* the source file that is edited while the session runs
EditedFiles == {"stm32f1xx_hal.c"}

\* a source file is edited: its st_mtime becomes the present time
Touch ==
    \E f \in EditedFiles, t \in WriteTimes :
        /\ src[f] # Absent
        /\ src' = [src EXCEPT ![f] = t]
        /\ ret' = NoCall
        /\ UNCHANGED <<sess_vars, obj, lib, bin, link_ld, startup_s,
                       chip_name, resolved, mcu>>

\* a source file is removed from HAL_DIR / "Src"
DeleteSrc ==
    \E f \in SrcFiles :
        /\ src[f] # Absent
        /\ src' = [src EXCEPT ![f] = Absent]
        /\ ret' = NoCall
        /\ UNCHANGED <<sess_vars, obj, lib, bin, link_ld, startup_s,
                       chip_name, resolved, mcu>>

\* Compiler.__init__, with the HAL sources installed and nothing built
Init ==
    /\ has_gcc = FALSE
    /\ has_specs = FALSE
    /\ has_hal = FALSE
    /\ has_hal_lib = FALSE
    /\ hal_inc_dirs = <<>>
    /\ hal_src_files = <<>>
    /\ chip_info = NoChip
    /\ current_family = NoFamily
    /\ src = [f \in SrcFiles |-> 0]
    /\ obj = [f \in SrcFiles |-> NoObj]
    /\ lib = [f \in Families |-> [exists |-> FALSE, members |-> [g \in SrcFiles |-> NoMember]]]
    /\ bin = FALSE
    /\ link_ld = NoChip
    /\ startup_s = NoChip
    /\ mcu = PowerOff
    /\ ret = NoCall
    /\ chip_name = <<>>
    /\ resolved = NoChip

Next ==
    \/ SetChip
    \/ PrecompileHal
    \/ Check
    \/ Compile
    \/ Touch
    \/ DeleteSrc

Spec == Init /\ [][Next]_vars

(***************************************************************************)
(* The resolver on its own: one chip name, looked up and given to set_chip *)
(* of a new session                                                        *)
(***************************************************************************)
InitResolve ==
    /\ has_gcc = FALSE
    /\ has_specs = FALSE
    /\ has_hal = FALSE
    /\ has_hal_lib = FALSE
    /\ hal_inc_dirs = <<>>
    /\ hal_src_files = <<>>
    /\ chip_info = NoChip
    /\ current_family = NoFamily
    /\ src = [f \in SrcFiles |-> 0]
    /\ obj = [f \in SrcFiles |-> NoObj]
    /\ lib = [f \in Families |-> [exists |-> FALSE, members |-> [g \in SrcFiles |-> NoMember]]]
    /\ bin = FALSE
    /\ link_ld = NoChip
    /\ startup_s = NoChip
    /\ mcu = PowerOff
    /\ ret = NoCall
    /\ chip_name \in ChipNames
    /\ resolved = NoChip

\* _lookup_chip(chip_name)
Resolve ==
    \E found \in {_lookup_chip(chip_name)} :
        /\ resolved' = found
        /\ ret' = [NoCall EXCEPT !.op = "_lookup_chip", !.ok = TRUE, !.value = found]
        /\ UNCHANGED <<sess_vars, disk_vars, chip_name, mcu>>

\* Compiler().set_chip(chip_name)
SetChipNamed ==
    \E s \in {set_chip(Self, chip_name)} :
        Commit(s, Disk, [NoCall EXCEPT !.op = "set_chip", !.ok = TRUE,
                                       !.value = s.chip_info])

NextResolve ==
    \/ Resolve
    \/ SetChipNamed

SpecResolve == InitResolve /\ [][NextResolve]_vars

(***************************************************************************)
(* The two generators on their own: each step calls one of them and keeps  *)
(* its arguments and the text it returned                                  *)
(***************************************************************************)
\* sizes in KB the linker script is generated for: the small ones, and
\* those of CHIP_DB
SizesK ==
    (1..MaxSizeK) \cup {CHIP_DB[i].flash_k : i \in ChipIndexes}
                  \cup {CHIP_DB[i].ram_k : i \in ChipIndexes}

Cpus == {CHIP_DB[i].cpu : i \in ChipIndexes}

\* _gen_linker_script(flash_k, ram_k)
GenLinkerScript ==
    \E flash_k \in SizesK, ram_k \in SizesK :
        /\ ret' = [NoCall EXCEPT !.op = "_gen_linker_script", !.ok = TRUE,
                                 !.args = <<flash_k, ram_k>>,
                                 !.text = _gen_linker_script(flash_k, ram_k)]
        /\ UNCHANGED <<sess_vars, disk_vars, chip_name, resolved, mcu>>

\* _gen_startup(cpu, irq_names) with the table of a family
GenStartup ==
    \E cpu \in Cpus, family \in DOMAIN _FAMILY_IRQ_NAMES :
        /\ ret' = [NoCall EXCEPT !.op = "_gen_startup", !.ok = TRUE,
                                 !.args = <<cpu, family>>,
                                 !.text = _gen_startup(cpu, _FAMILY_IRQ_NAMES[family])]
        /\ UNCHANGED <<sess_vars, disk_vars, chip_name, resolved, mcu>>

NextGen ==
    \/ GenLinkerScript
    \/ GenStartup

SpecGen == Init /\ [][NextGen]_vars

(***************************************************************************)
(* The firmware on the microcontroller: reset, and the startup code run    *)
(* one instruction at a time                                               *)
(***************************************************************************)
\* the addresses the linker gives the script's symbols when .data has
\* ndata words and .bss nbss words: .data and .bss follow each other at the
\* start of RAM, the image of .data is in flash at _etext, and _estack is
\* the end of RAM
Layout(info, ndata, nbss) ==
    [_etext |-> FlashOrigin + 4 * CodeWords,
     _sdata |-> RamOrigin,
     _edata |-> RamOrigin + 4 * ndata,
     _sbss  |-> RamOrigin + 4 * ndata,
     _ebss  |-> RamOrigin + 4 * (ndata + nbss),
     _estack |-> RamOrigin + 1024 * CHIP_DB[info].ram_k]

WordsFrom(a, n) == {a + 4 * i : i \in 0..(n - 1)}

\* the programs linked with the startup code: main is user code, and
\* SystemInit is in system_stm32<f>xx.c when that file is linked
Links == {{"main"}, {"main", "SystemInit"}}

\* the firmware built from the files set_chip wrote is flashed and started,
\* or the running core is reset
Reset ==
    /\ startup_s # NoChip
    /\ \E ndata \in 0..MaxWords, nbss \in 0..MaxWords, strong \in Links,
          text \in {StartupText} :
          \E sym \in {Layout(link_ld, ndata, nbss)} :
             mcu' = Booted(startup_s, text,
                           VectorTable(text), sym,
                           WordsFrom(sym["_sdata"], ndata + nbss), strong)
    /\ ret' = [NoCall EXCEPT !.op = "reset"]
    /\ UNCHANGED <<sess_vars, disk_vars, chip_name, resolved>>

\* the core executes the instruction at pc
Step ==
    /\ mcu.pc # 0
    /\ mcu.inside = "startup"
    /\ \E text \in {Startup(mcu.image)} :
          mcu' = Exec(mcu, text, text[mcu.pc].op, text[mcu.pc].args)
    /\ ret' = [NoCall EXCEPT !.op = "step"]
    /\ UNCHANGED <<sess_vars, disk_vars, chip_name, resolved>>

\* a function outside the startup code returns to the instruction after
\* its bl
Return ==
    /\ mcu.pc # 0
    /\ mcu.inside # "startup"
    /\ mcu' = [mcu EXCEPT !.inside = "startup", !.pc = mcu.lr]
    /\ ret' = [NoCall EXCEPT !.op = "return"]
    /\ UNCHANGED <<sess_vars, disk_vars, chip_name, resolved>>

NextReset ==
    \/ SetChip
    \/ Reset
    \/ Step
    \/ Return

SpecReset == Init /\ [][NextReset]_vars

(***************************************************************************)
(* The message builder on its own: a stderr text, and compile failing      *)
(* with it                                                                 *)
(***************************************************************************)
\* lines of a compiler's and a linker's output: with 'error:', with
\* 'undefined reference', with 'collect2:' and 'error:', two with no marker,
\* and one with 'fatal:' and 'No such file'
LineKinds ==
    { << "m", "a", "i", "n", ".", "c", ":", "3", ":", " ", "e", "r", "r",
         "o", "r", ":", " ", "x" >>,
      << "m", "a", "i", "n", ".", "c", ":", " ", "u", "n", "d", "e", "f",
         "i", "n", "e", "d", " ", "r", "e", "f", "e", "r", "e", "n", "c",
         "e", " ", "t", "o", " ", "`", "f", "'" >>,
      << "c", "o", "l", "l", "e", "c", "t", "2", ":", " ", "e", "r", "r",
         "o", "r", ":", " ", "l", "d", " ", "r", "e", "t", "u", "r", "n",
         "e", "d", " ", "1", " ", "e", "x", "i", "t", " ", "s", "t", "a",
         "t", "u", "s" >>,
      << "m", "a", "i", "n", ".", "c", ":", "1", ":", " ", "w", "a", "r",
         "n", "i", "n", "g", ":", " ", "y" >>,
      << "I", "n", " ", "f", "u", "n", "c", "t", "i", "o", "n", " ", "'",
         "m", "a", "i", "n", "'", ":" >>,
      << "a", ".", "h", ":", " ", "f", "a", "t", "a", "l", ":", " ", "N",
         "o", " ", "s", "u", "c", "h", " ", "f", "i", "l", "e" >> }

\* the stderr texts: those of up to MaxLines lines, each of one of the kinds;
\* one of LineLimit + 2 lines that carry a marker, all different; and two
\* without a marker that are longer than CharLimit, which begin with H, end
\* with T and are lines of x between
Streams ==
    LET Filler(n) == [i \in 1..n |-> IF i % 50 = 0 THEN NL ELSE "x"]
    IN  UNION {{Join(ls) : ls \in [1..n -> LineKinds]} : n \in 0..MaxLines}
          \cup {Join([i \in 1..(LineLimit + 2) |-> Markers[1] \o Decimal(i)])}
          \cup {<<"H">> \o Filler(CharLimit + k) \o <<"T">> : k \in 0..1}

InitDiag ==
    /\ has_gcc = FALSE
    /\ has_specs = FALSE
    /\ has_hal = FALSE
    /\ has_hal_lib = FALSE
    /\ hal_inc_dirs = <<>>
    /\ hal_src_files = <<>>
    /\ chip_info = NoChip
    /\ current_family = NoFamily
    /\ src = [f \in SrcFiles |-> 0]
    /\ obj = [f \in SrcFiles |-> NoObj]
    /\ lib = [f \in Families |-> [exists |-> FALSE, members |-> [g \in SrcFiles |-> NoMember]]]
    /\ bin = FALSE
    /\ link_ld = NoChip
    /\ startup_s = NoChip
    /\ mcu = PowerOff
    /\ \E err \in Streams : ret = [NoCall EXCEPT !.op = "stderr", !.args = <<err>>]
    /\ chip_name = <<>>
    /\ resolved = NoChip

\* the compiler has exited non-zero with the text on stderr: compile
\* returns {"ok": False, "msg": short, "bin_path": None, "bin_size": 0}
Diagnose ==
    /\ ret.op = "stderr"
    /\ ret' = [NoCall EXCEPT !.op = "compile", !.err = "nonzero",
                             !.msg = "diagnostics", !.procs = <<"gcc">>,
                             !.args = ret.args, !.text = Short(ret.args[1])]
    /\ UNCHANGED <<sess_vars, disk_vars, chip_name, resolved, mcu>>

SpecDiag == InitDiag /\ [][Diagnose]_vars

(***************************************************************************)
(* One run of the firmware, from power-on to wherever the core ends up     *)
(***************************************************************************)
\* power is applied to a core that holds the firmware: the reset that
\* starts the run.  Every reset starts the core in the same state, so a
\* behaviour follows one reset for as long as the core runs.
PowerOn ==
    /\ mcu = PowerOff
    /\ Reset

\* a powered core executes the instruction at pc, and the functions called
\* from the startup code return
SpecBoot ==
    /\ Init
    /\ [][SetChip \/ PowerOn \/ Step \/ Return]_vars
    /\ WF_vars(Step)
    /\ WF_vars(Return)

(***************************************************************************)
(* Properties of the resolver, checked under SpecResolve                   *)
(***************************************************************************)
\* name is a table key followed by n more characters
KeyPlus(i, n, name) ==
    /\ Len(name) = Len(CHIP_DB[i].key) + n
    /\ SubSeq(name, 1, Len(CHIP_DB[i].key)) = CHIP_DB[i].key

\* C8: for every key K of the chip table and every suffix s of one or two
\* characters, _lookup_chip(K + s) returns the entry CHIP_DB[K]; and
\* "STM32F103C8T6" resolves to cortex-m3, 64 KB flash, 20 KB RAM, family f1,
\* no FPU, "STM32F407VGT6" to 1024 KB flash, 128 KB RAM, family f4, FPU.
C8_SuffixResolvesToKey ==
    ret.op = "_lookup_chip" =>
        /\ \A i \in ChipIndexes, n \in 1..2 :
              KeyPlus(i, n, chip_name) => resolved = i
        /\ chip_name = STM32F \o <<"1","0","3","C","8","T","6">> =>
              /\ resolved # NoChip
              /\ CHIP_DB[resolved].cpu = "cortex-m3"
              /\ CHIP_DB[resolved].flash_k = 64
              /\ CHIP_DB[resolved].ram_k = 20
              /\ CHIP_DB[resolved].family = "f1"
              /\ CHIP_DB[resolved].fpu = FALSE
        /\ chip_name = STM32F \o <<"4","0","7","V","G","T","6">> =>
              /\ resolved # NoChip
              /\ CHIP_DB[resolved].flash_k = 1024
              /\ CHIP_DB[resolved].ram_k = 128
              /\ CHIP_DB[resolved].family = "f4"
              /\ CHIP_DB[resolved].fpu = TRUE

\* "STM32F407VGT6" has been looked up and gave the entry of STM32F407VG,
\* which is not the first entry of its family
C8_Witness ==
    /\ ret.op = "_lookup_chip"
    /\ chip_name = STM32F \o <<"4","0","7","V","G","T","6">>
    /\ resolved # NoChip
    /\ CHIP_DB[resolved].key = STM32F \o <<"4","0","7","V","G">>

\* no step of the cascade recognizes name: no key is the normalized name or
\* the name without its last one or two characters, no key starts the name,
\* and no key starts with a family prefix the name begins with
Unrecognized(name) ==
    LET n == Normalize(name)
    IN  /\ \A i \in ChipIndexes :
              /\ CHIP_DB[i].key # n
              /\ \A k \in 1..2 : Len(n) > k => CHIP_DB[i].key # SubSeq(n, 1, Len(n) - k)
              /\ ~StartsWith(n, CHIP_DB[i].key)
        /\ ReMatches(n) =>
              \A i \in ChipIndexes : ~StartsWith(CHIP_DB[i].key, SubSeq(n, 1, 9))

StrippedKeys(n, k) ==
    {i \in ChipIndexes : Len(n) > k /\ CHIP_DB[i].key = SubSeq(n, 1, Len(n) - k)}
\* the table positions whose key starts the name
KeysStarting(n) == {i \in ChipIndexes : StartsWith(n, CHIP_DB[i].key)}
\* the table positions whose key starts with the family prefix of the name
FamilyKeys(n) ==
    IF ReMatches(n)
    THEN {i \in ChipIndexes : StartsWith(CHIP_DB[i].key, SubSeq(n, 1, 9))}
    ELSE {}
\* the least position of a set of table positions
First(S) == CHOOSE i \in S : \A j \in S : i <= j

\* C10: _lookup_chip tries exact key lookup, suffix stripping (two
\* characters, then one), the scan for a key that starts the name, and the
\* family-prefix fallback, in this order, and returns the entry of the first
\* strategy that finds one; the scan and the fallback return the first
\* entry in table order; it returns None when no strategy finds an entry.
C10_StrategyOrder ==
    ret.op = "_lookup_chip" =>
        LET n == Normalize(chip_name)
            exact == {i \in ChipIndexes : CHIP_DB[i].key = n}
        IN  IF exact # {} THEN resolved \in exact
            ELSE IF StrippedKeys(n, 2) # {} THEN resolved \in StrippedKeys(n, 2)
            ELSE IF StrippedKeys(n, 1) # {} THEN resolved \in StrippedKeys(n, 1)
            ELSE IF KeysStarting(n) # {} THEN resolved = First(KeysStarting(n))
            ELSE IF FamilyKeys(n) # {} THEN resolved = First(FamilyKeys(n))
            ELSE resolved = NoChip

\* a name only the family fallback recognizes, several keys share its
\* prefix, and the lookup returned the first of them
C10_Witness ==
    /\ ret.op = "_lookup_chip"
    /\ chip_name = STM32F \o <<"1","0","3">>
    /\ KeysStarting(Normalize(chip_name)) = {}
    /\ Cardinality(FamilyKeys(Normalize(chip_name))) > 1
    /\ resolved = First(FamilyKeys(Normalize(chip_name)))

(***************************************************************************)
(* Properties of the session, checked under Spec                           *)
(***************************************************************************)
\* C1: every set_chip call that replaces the current chip with a different
\* entry leaves has_hal_lib false and the HAL source list resolved anew for
\* the new chip's family, also when the two chips belong to one family.
C1_ChipChangeInvalidatesArchive ==
    [][(ret'.op = "set_chip" /\ chip_info' # chip_info) =>
          /\ ~has_hal_lib'
          /\ hal_src_files' = (IF current_family' \in HalHeaders
                               THEN ExistingFiles(NeededFiles(current_family'))
                               ELSE <<>>)]_vars

\* C2: whenever precompile_hal fails at the archiving step (no object file
\* exists, or the archiver fails), it returns false and has_hal_lib is false
\* on return, whatever it was before the call.
C2_ArchiveFailureClearsReady ==
    (/\ ret.op = "precompile_hal"
     /\ ~ret.ok
     /\ (ret.err = "no_objects" \/ ret.ar = 1)) => ~has_hal_lib

\* C3: two precompile_hal calls in succession, the first returning true and
\* nothing changing on disk in between: the second returns true as well,
\* runs the compiler on no unit and does not run the archiver, and
\* has_hal_lib is true after each.
C3_PrecompileIdempotent ==
    [][(ret.op = "precompile_hal" /\ ret.ok /\ ret'.op = "precompile_hal") =>
          /\ has_hal_lib
          /\ ret'.ok
          /\ ret'.selected = <<>>
          /\ ret'.invoked = <<>>
          /\ ret'.ar = 0
          /\ has_hal_lib'
          /\ obj' = obj /\ lib' = lib]_vars

\* a precompile_hal call found both listed units fresh and the archive there
C3_Witness ==
    /\ ret.op = "precompile_hal"
    /\ ret.ok
    /\ ret.selected = <<>>
    /\ ret.ar = 0
    /\ has_hal_lib
    /\ Len(hal_src_files) = 2
    /\ lib[current_family].exists

\* the freshness rule: the object exists and is not older than its source
Fresh(f) == obj[f].mtime # Absent /\ obj[f].mtime >= src[f]

\* the session can precompile: HAL, toolchain and chip are there, every
\* listed source is on disk and the archive of the family exists
ArchiveBuilt ==
    /\ has_hal /\ has_gcc /\ chip_info # NoChip
    /\ hal_src_files # <<>>
    /\ \A f \in Range(hal_src_files) : src[f] # Absent
    /\ lib[FamilyOrF1(Self)].exists

\* every listed object but that of f is fresh, and f's exists and is older
\* than its source
OnlyStale(f) ==
    /\ ArchiveBuilt
    /\ f \in Range(hal_src_files)
    /\ obj[f].mtime # Absent /\ obj[f].mtime < src[f]
    /\ \A g \in Range(hal_src_files) \ {f} : Fresh(g)

\* C4: from a state where the archive exists and every object is fresh but
\* one, whose source was modified after it, precompile_hal runs the compiler
\* exactly once, on that unit, and leaves every other object file as it
\* was; it runs the archiver exactly once unless that compiler run failed,
\* and returns true with has_hal_lib set when both runs succeed.
C4_PrecompileIncremental ==
    [][\A f \in SrcFiles :
          (OnlyStale(f) /\ ret'.op = "precompile_hal") =>
              /\ ret'.selected = <<f>>
              /\ ret'.invoked = <<f>>
              /\ \A g \in SrcFiles \ {f} : obj'[g] = obj[g]
              /\ ret'.ar = 1 \/ (ret'.ar = 0 /\ ret'.err \in Failures)
              /\ ret'.err = "none" => (ret'.ok /\ ret'.ar = 1 /\ has_hal_lib')
              /\ ret'.ok => (obj'[f].mtime >= src[f] /\ lib'[FamilyOrF1(Self)].exists)]_vars

\* precompile_hal recompiled stm32f1xx_hal.c alone and archived once; the
\* object of system_stm32f1xx.c is the older one it had
C4_Witness ==
    /\ ret.op = "precompile_hal"
    /\ ret.ok
    /\ ret.invoked = <<"stm32f1xx_hal.c">>
    /\ ret.ar = 1
    /\ Len(hal_src_files) = 2
    /\ obj["system_stm32f1xx.c"].mtime # Absent
    /\ obj["system_stm32f1xx.c"].mtime < obj["stm32f1xx_hal.c"].mtime

\* C5: with the toolchain available compile runs the compiler exactly once,
\* in the mode the flags determine: fast (links the archive of the current
\* family, passes no HAL source) iff has_hal and has_hal_lib; slow (passes
\* every file of hal_src_files, no archive) iff has_hal and not has_hal_lib;
\* syntax-only iff not has_hal.  Without the toolchain it runs none.
C5_CompileModeFromFlags ==
    ret.op = "compile" =>
        /\ has_gcc <=> ret.mode \in {"fast", "slow", "syntax"}
        /\ ~has_gcc <=> ret.mode = "none"
        /\ has_gcc =>
              /\ ret.mode = "fast" <=> (has_hal /\ has_hal_lib)
              /\ ret.mode = "slow" <=> (has_hal /\ ~has_hal_lib)
              /\ ret.mode = "syntax" <=> ~has_hal
              /\ ret.mode = "fast" =>
                    (ret.srcs = <<>> /\ ret.libs = current_family)
              /\ ret.mode = "slow" =>
                    (ret.srcs = hal_src_files /\ ret.libs = "")
              /\ ret.mode = "syntax" =>
                    (ret.srcs = <<>> /\ ret.libs = "")

\* a compile on the fast path has linked the archive of f1
C5_Witness ==
    /\ ret.op = "compile"
    /\ ret.mode = "fast"
    /\ ret.libs = "f1"
    /\ ret.ok
    /\ has_hal /\ has_hal_lib

\* the archive of the current family is on disk, every listed source is
\* there and every listed object is fresh, but has_hal_lib is not set: the
\* session has left the family and come back
BackAtBuiltFamily ==
    /\ ArchiveBuilt
    /\ ~has_hal_lib
    /\ \A f \in Range(hal_src_files) : Fresh(f)

\* C6: set_chip leaves every object file and every archive as it was; so
\* after a switch to another family and back, with no source changed, the
\* first precompile_hal returns true without running the compiler or the
\* archiver, and the compile that follows takes the fast path.
C6_SetChipKeepsCache ==
    [][/\ ret'.op = "set_chip" => (obj' = obj /\ lib' = lib /\ src' = src)
       /\ (BackAtBuiltFamily /\ ret'.op = "precompile_hal") =>
             /\ ret'.ok
             /\ ret'.invoked = <<>>
             /\ ret'.ar = 0
             /\ has_hal_lib'
       /\ (ret.op = "precompile_hal" /\ ret.ok /\ ret'.op = "compile") =>
             ret'.mode = "fast"]_vars

\* set_chip has just returned to f1, whose archive and fresh objects are
\* still on disk, with has_hal_lib reset by the change of family
C6_Witness ==
    /\ ret.op = "set_chip"
    /\ current_family = "f1"
    /\ BackAtBuiltFamily
    /\ Len(hal_src_files) = 2

\* the listed units that are not fresh
NotFresh(f) == ~Fresh(f)

\* C7: precompile_hal treats a unit as fresh iff its object exists and is
\* not older than its source, equal times counting as fresh: the units it
\* selects for recompilation are exactly the listed units that are not
\* fresh, in list order, and it runs the compiler on all of them when no
\* run fails.
C7_SelectsExactlyNotFresh ==
    [][(ret'.op = "precompile_hal" /\ ret'.err # "not_ready" /\ ~ret'.raised) =>
          /\ ret'.selected = SelectSeq(hal_src_files, NotFresh)
          /\ (ret'.ok \/ ret'.ar = 1) => ret'.invoked = ret'.selected]_vars

\* precompile_hal selected stm32f1xx_hal.c alone while the object of
\* system_stm32f1xx.c is exactly as old as its source
C7_Witness ==
    /\ ret.op = "precompile_hal"
    /\ ret.selected = <<"stm32f1xx_hal.c">>
    /\ Len(hal_src_files) = 2
    /\ obj["system_stm32f1xx.c"].mtime # Absent
    /\ obj["system_stm32f1xx.c"].mtime = src["system_stm32f1xx.c"]

(***************************************************************************)
(* The generated startup code and linker script                            *)
(***************************************************************************)
\* the sixteen core words: stack top, reset, NMI, HardFault, MemManage,
\* BusFault, UsageFault, four zeros, SVC, DebugMon, one zero, PendSV, SysTick
CoreWords ==
    << "_estack", "Reset_Handler", "NMI_Handler", "HardFault_Handler",
       "MemManage_Handler", "BusFault_Handler", "UsageFault_Handler",
       "0", "0", "0", "0", "SVC_Handler", "DebugMon_Handler", "0",
       "PendSV_Handler", "SysTick_Handler" >>

CoreLen == Len(CoreWords)

TableOf(call) == _FAMILY_IRQ_NAMES[call.args[2]]

VectorTableIs(words, T) ==
    /\ Len(words) = CoreLen + Len(T)
    /\ SubSeq(words, 1, CoreLen) = CoreWords
    /\ \A i \in 1..Len(T) :
          words[CoreLen + i] = (IF T[i] # None THEN T[i] ELSE "0")

\* C11: for the interrupt table T of every family, the vector table of the
\* generated startup code has exactly 16 + len(T) words: the sixteen core
\* words, then one word per slot of T in table order, the slot's handler
\* name if it has one and zero if it is reserved
C11_VectorTableLayout ==
    ret.op = "_gen_startup" =>
        VectorTableIs(VectorTable(ret.text), TableOf(ret))

\* a startup text generated from a table that has reserved slots
C11_Witness ==
    /\ ret.op = "_gen_startup"
    /\ \E i \in 1..Len(TableOf(ret)) : TableOf(ret)[i] = None
    /\ \E i \in 1..Len(TableOf(ret)) : TableOf(ret)[i] # None
    /\ Len(VectorTable(ret.text)) = CoreLen + Len(TableOf(ret))

\* how often a value occurs in a sequence
Count(seq, x) == Cardinality({i \in 1..Len(seq) : seq[i] = x})

\* the statements that make name a weak symbol, and those that alias it
WeakDecls(text, name) ==
    {i \in 1..Len(text) : text[i].op = ".weak" /\ text[i].args = <<name>>}

Aliases(text, name) ==
    {i \in 1..Len(text) : text[i].op = ".thumb_set" /\ text[i].args[1] = name}

NamesOf(T) == {T[i] : i \in 1..Len(T)} \ {None}

\* the names the template itself puts in the vector table or aliases
TemplateNames ==
    {CoreWords[i] : i \in 1..Len(CoreWords)}
        \cup {"Reset_Handler", "Default_Handler", "SystemInit"}

\* C12: every handler name of a family's interrupt table appears exactly
\* once as a word of the vector table and exactly once as a weak alias of
\* Default_Handler in the generated startup code; the table has no name
\* twice and no name of a core handler, Reset_Handler, Default_Handler or
\* SystemInit
C12_EachNameOnceAndAliased ==
    ret.op = "_gen_startup" =>
        /\ \A name \in NamesOf(TableOf(ret)) :
              /\ Count(TableOf(ret), name) = 1
              /\ name \notin TemplateNames
              /\ Count(VectorTable(ret.text), name) = 1
              /\ Cardinality(WeakDecls(ret.text, name)) = 1
              /\ Cardinality(Aliases(ret.text, name)) = 1
              /\ \A i \in Aliases(ret.text, name) :
                    ret.text[i].args = <<name, "Default_Handler">>

\* a startup text for a table with reserved slots, in which a handler of
\* the table is a vector-table word and a weak alias
C12_Witness ==
    /\ ret.op = "_gen_startup"
    /\ None \in {TableOf(ret)[i] : i \in 1..Len(TableOf(ret))}
    /\ \E name \in NamesOf(TableOf(ret)) :
          /\ Count(VectorTable(ret.text), name) = 1
          /\ Aliases(ret.text, name) # {}

(***************************************************************************)
(* The reset handler at run time                                           *)
(***************************************************************************)
Running == mcu.pc # 0

\* [_sdata, _edata) holds the image that is in flash at _etext
DataCopied(m) ==
    \A a \in DOMAIN m.ram :
        a < m.sym["_edata"] =>
            m.ram[a] = ReadWord(m, m.sym["_etext"] + (a - m.sym["_sdata"]))

\* [_sbss, _ebss) is zero
BssZeroed(m) ==
    \A a \in DOMAIN m.ram : a >= m.sym["_sbss"] => m.ram[a] = 0

RamReady(m) == m.sp = m.sym["_estack"] /\ DataCopied(m) /\ BssZeroed(m)

\* this step is one of the run in progress, not a reset
SameRun == Running /\ ret'.op \in {"step", "return"}

CallMade == SameRun /\ Len(mcu'.calls) > Len(mcu.calls)

\* this step writes a word of [_sbss, _ebss)
BssWritten ==
    /\ SameRun
    /\ \E a \in DOMAIN mcu.ram :
          a >= mcu.sym["_sbss"] /\ mcu'.ram[a] # mcu.ram[a]

MainReturned ==
    /\ Running
    /\ mcu.calls = <<"SystemInit", "main">>
    /\ mcu.inside = "startup"

InResetHandler(m) ==
    \E text \in {Startup(m.image)} :
        /\ m.pc > SectionStart(text, ".text.Reset_Handler")
        /\ m.pc <= SectionEnd(text, SectionStart(text, ".text.Reset_Handler"))

ResetOrder ==
    /\ SameRun /\ mcu'.ram # mcu.ram => mcu.sp = mcu.sym["_estack"]
    /\ BssWritten => DataCopied(mcu)
    /\ CallMade =>
          /\ RamReady(mcu)
          /\ mcu'.calls \in {<<"SystemInit">>, <<"SystemInit", "main">>}
    /\ MainReturned /\ SameRun =>
          /\ mcu'.pc = mcu.pc
          /\ mcu'.inside = "startup"
          /\ InResetHandler(mcu')

\* C13: after every reset the generated reset handler sets the stack
\* pointer, copies the image of initialized data from flash at _etext to
\* [_sdata, _edata), zero-fills [_sbss, _ebss), calls SystemInit, calls main
\* and then loops forever, in this order: no word of RAM is written before
\* the stack pointer is set, none of .bss before .data is copied, neither
\* call is made before both loops have finished, main is called after
\* SystemInit, and once main has returned control stays in the handler
C13_ResetHandlerOrder == [][ResetOrder]_vars

\* main has returned to the reset handler of a firmware that had words to
\* copy and words to zero
C13_Witness ==
    /\ MainReturned
    /\ mcu.sym["_edata"] > mcu.sym["_sdata"]
    /\ mcu.sym["_ebss"] > mcu.sym["_sbss"]
    /\ RamReady(mcu)
    /\ InResetHandler(mcu)

(***************************************************************************)
(* The linker script                                                       *)
(***************************************************************************)
\* the MEMORY line of a region
RegionLine(text, name) ==
    text[CHOOSE i \in 1..Len(text) :
            text[i].kind = "region" /\ text[i].name = name]

\* the number a sequence of decimal digits denotes
DigitValue(c) == CHOOSE d \in 0..9 : DigitChars[d + 1] = c

RECURSIVE Number(_)
Number(digits) ==
    IF digits = <<>> THEN 0
    ELSE 10 * Number(SubSeq(digits, 1, Len(digits) - 1))
            + DigitValue(digits[Len(digits)])

\* the linker reads a number followed by K as that many times 1024, and
\* one followed by M as that many times 1024 * 1024
UnitBytes(unit) ==
    CASE unit = "" -> 1 [] unit = "K" -> 1024 [] unit = "M" -> 1024 * 1024

LengthBytes(length) == Number(length.digits) * UnitBytes(length.unit)

\* a length written as a literal count of bytes
ByteCount(n) == [digits |-> Decimal(n), unit |-> ""]

\* C14 as stated: for every (flashKB, ramKB) the linker script gives the
\* lengths of FLASH and RAM as the literal byte counts flashKB * 1024 and
\* ramKB * 1024
C14_LengthsAreByteCounts ==
    ret.op = "_gen_linker_script" =>
        /\ RegionLine(ret.text, "FLASH").length = ByteCount(ret.args[1] * 1024)
        /\ RegionLine(ret.text, "RAM").length = ByteCount(ret.args[2] * 1024)

\* C14, amended: for every (flashKB, ramKB) the linker script gives the
\* lengths of FLASH and RAM as the decimal numbers flashKB and ramKB, each
\* followed by the unit K, which the linker reads as flashKB * 1024 and
\* ramKB * 1024 bytes
C14_LengthsInKilobytes ==
    ret.op = "_gen_linker_script" =>
        /\ RegionLine(ret.text, "FLASH").length.unit = "K"
        /\ RegionLine(ret.text, "RAM").length.unit = "K"
        /\ Number(RegionLine(ret.text, "FLASH").length.digits) = ret.args[1]
        /\ Number(RegionLine(ret.text, "RAM").length.digits) = ret.args[2]
        /\ LengthBytes(RegionLine(ret.text, "FLASH").length) = ret.args[1] * 1024
        /\ LengthBytes(RegionLine(ret.text, "RAM").length) = ret.args[2] * 1024

\* a linker script for two different sizes, one of several digits
C14_Witness ==
    /\ ret.op = "_gen_linker_script"
    /\ ret.args[1] >= 100
    /\ ret.args[2] < 10
    /\ Len(RegionLine(ret.text, "FLASH").length.digits) = 3
    /\ LengthBytes(RegionLine(ret.text, "RAM").length) = ret.args[2] * 1024

\* the script with the two lengths blanked out
WithoutLengths(text) ==
    [i \in 1..Len(text) |->
        IF text[i].kind = "region" THEN [text[i] EXCEPT !.length = NoLength]
                                   ELSE text[i]]

\* the statements of a kind, in the order of the text
OfKind(text, kind) == SelectSeq(text, LAMBDA st : st.kind = kind)

NamesIn(stmts) == [i \in 1..Len(stmts) |-> stmts[i].name]

\* the position of the first statement of a kind, and of the last
FirstOf(text, kind) ==
    CHOOSE i \in 1..Len(text) :
        text[i].kind = kind /\ \A j \in 1..(i - 1) : text[j].kind # kind

LastOf(text, kind) ==
    CHOOSE i \in 1..Len(text) :
        text[i].kind = kind /\ \A j \in (i + 1)..Len(text) : text[j].kind # kind

SectionNamed(text, name) ==
    text[CHOOSE i \in 1..Len(text) :
            text[i].kind = "section" /\ text[i].name = name]

HasItem(section, item) == \E k \in 1..Len(section.body) : section.body[k] = item

\* the script for the sizes of the default chip, to compare the others with
ReferenceScript ==
    _gen_linker_script(CHIP_DB[DefaultInfo].flash_k, CHIP_DB[DefaultInfo].ram_k)

\* C15: the linker script is a function of (flashKB, ramKB) alone, and two
\* scripts differ only in the two region lengths; every script has, in this
\* order, the memory map with FLASH at 0x08000000 and RAM at 0x20000000, the
\* stack-top symbol _estack at the end of RAM, the heap and stack size
\* constants, and the sections .isr_vector, .text (with the read-only
\* data), .init, .fini, .init_array, .fini_array, .data (loaded from flash
\* at _etext), .bss, ._user_heap_stack and last /DISCARD/
C15_LinkerScriptShape ==
    ret.op = "_gen_linker_script" =>
        /\ ret.text = _gen_linker_script(ret.args[1], ret.args[2])
        /\ WithoutLengths(ret.text) = WithoutLengths(ReferenceScript)
        /\ NamesIn(OfKind(ret.text, "region")) = <<"FLASH", "RAM">>
        /\ RegionLine(ret.text, "FLASH").origin = "0x08000000"
        /\ RegionLine(ret.text, "RAM").origin = "0x20000000"
        /\ NamesIn(OfKind(ret.text, "assign"))
              = <<"_estack", "_Min_Heap_Size", "_Min_Stack_Size">>
        /\ OfKind(ret.text, "assign")[1].value = "ORIGIN(RAM) + LENGTH(RAM)"
        /\ NamesIn(OfKind(ret.text, "section"))
              = <<".isr_vector", ".text", ".init", ".fini", ".init_array",
                  ".fini_array", ".data", ".bss", "._user_heap_stack",
                  "/DISCARD/">>
        /\ LastOf(ret.text, "region") < FirstOf(ret.text, "assign")
        /\ LastOf(ret.text, "assign") < FirstOf(ret.text, "section")
        /\ LastOf(ret.text, "section") = Len(ret.text)
        /\ HasItem(SectionNamed(ret.text, ".text"), Input("*(.rodata*)"))
        /\ SectionNamed(ret.text, ".data").at = "_etext"
        /\ SectionNamed(ret.text, ".data").region = "RAM"

\* a linker script for sizes that are not those of the reference script
C15_Witness ==
    /\ ret.op = "_gen_linker_script"
    /\ ret.args[1] # CHIP_DB[DefaultInfo].flash_k
    /\ ret.args[2] # CHIP_DB[DefaultInfo].ram_k
    /\ ret.text # ReferenceScript
    /\ WithoutLengths(ret.text) = WithoutLengths(ReferenceScript)

(***************************************************************************)
(* The startup code against the linker script                              *)
(***************************************************************************)
\* the symbols the startup code loads the address of with "ldr rX, =symbol"
LoadedSymbols(text) ==
    {text[i].args[3] : i \in {j \in 1..Len(text) :
                                /\ text[j].op = "ldr"
                                /\ text[j].args[2] = "="}}

\* the symbols the startup code defines: its labels and its aliases
StartupSymbols(text) ==
    {text[i].label : i \in 1..Len(text)}
        \cup {text[i].args[1] : i \in {j \in 1..Len(text) :
                                          text[j].op = ".thumb_set"}}

\* the symbols the startup code uses and leaves to the linker script: those
\* it loads, and the words of the vector table it does not define itself
LinkerSymbols(text) ==
    LoadedSymbols(text)
        \cup ({VectorTable(text)[i] : i \in 1..Len(VectorTable(text))}
                \ (StartupSymbols(text) \cup {"0"}))

\* how often the linker script assigns a symbol: between the blocks, and
\* inside the output sections
TopAssignments(text, symbol) ==
    {i \in 1..Len(text) : text[i].kind = "assign" /\ text[i].name = symbol}

BodyAssignments(text, symbol) ==
    UNION {{<<i, k>> : k \in {n \in 1..Len(text[i].body) :
                                   /\ text[i].body[n][1] = "assign"
                                   /\ text[i].body[n][2] = symbol}} :
              i \in 1..Len(text)}

Definitions(text, symbol) ==
    Cardinality(TopAssignments(text, symbol))
        + Cardinality(BodyAssignments(text, symbol))

\* the section the startup code puts the label g_pfnVectors in
RECURSIVE SectionAt(_, _)
SectionAt(text, i) ==
    IF text[i].op = ".section" THEN text[i].args[1] ELSE SectionAt(text, i - 1)

VectorSection(text) == SectionAt(text, LabelIndex(text, "g_pfnVectors"))

\* the first output section the linker script places in a region
FirstIn(text, region) ==
    text[CHOOSE i \in 1..Len(text) :
            /\ text[i].kind = "section" /\ text[i].region = region
            /\ \A j \in 1..(i - 1) :
                  ~(text[j].kind = "section" /\ text[j].region = region)]

FilesWritten == link_ld # NoChip /\ startup_s # NoChip

\* a startup text and a linker script that fit each other
Fit(startup, script) ==
    /\ LinkerSymbols(startup)
          = {"_estack", "_sdata", "_edata", "_sbss", "_ebss", "_etext"}
    /\ \A symbol \in LinkerSymbols(startup) : Definitions(script, symbol) = 1
    /\ VectorSection(startup) = ".isr_vector"
    /\ FirstIn(script, "FLASH").name = ".isr_vector"
    /\ FirstIn(script, "FLASH").body = <<Keep("*(.isr_vector)")>>

\* whether the two texts written for a chip fit, for every chip
FitFor == [i \in ChipIndexes |-> Fit(Startup(i), LinkLd(i))]

\* C16: for every chip of the table, the linker symbols the generated
\* startup code refers to are _estack, _sdata, _edata, _sbss, _ebss and
\* _etext, the generated linker script defines each of them exactly once,
\* and the section the startup code puts its vector table in, .isr_vector,
\* is the one the linker script keeps first in FLASH
C16_StartupMatchesLinkerScript ==
    FilesWritten =>
        /\ link_ld = chip_info
        /\ startup_s = chip_info
        /\ FitFor[chip_info]

\* set_chip has written both files for a chip that is not the default one
C16_Witness ==
    /\ ret.op = "set_chip"
    /\ FilesWritten
    /\ CHIP_DB[chip_info].family # CHIP_DB[DefaultInfo].family
    /\ Definitions(LinkLdText, "_etext") = 1
    /\ "_etext" \in LoadedSymbols(StartupText)

(***************************************************************************)
(* HAL resolution                                                          *)
(***************************************************************************)
\* this step runs _find_hal: set_chip does when the family changes
FindHalRan == current_family' # current_family

PositionIn(list, f) == CHOOSE i \in 1..Len(list) : list[i] = f

\* files is the sub-list of list whose members are in present, in the order
\* of list
IsSubListOf(files, list, present) ==
    /\ Range(files) = Range(list) \cap present
    /\ \A i, j \in 1..Len(files) :
          i < j => PositionIn(list, files[i]) < PositionIn(list, files[j])

OnDiskNow == {f \in SrcFiles : src[f] # Absent}

FindHalResult ==
    IF current_family' \notin HalHeaders
    THEN /\ has_hal' = FALSE
         /\ hal_inc_dirs' = <<>>
         /\ hal_src_files' = <<>>
    ELSE /\ has_hal' = TRUE
         /\ IsSubListOf(hal_src_files', _FAMILY_HAL_FILES[current_family'],
                        OnDiskNow)

\* C17: _find_hal for a family whose header stm32<f>xx_hal.h is absent
\* leaves has_hal false and hal_inc_dirs and hal_src_files empty; for a
\* family whose header is present it leaves has_hal true and hal_src_files
\* exactly the files of the family's allow-list that exist on disk, in the
\* order of the allow-list, the absent ones skipped
C17_FindHalResolvesSources == [][FindHalRan => FindHalResult]_vars

\* set_chip has resolved the HAL with the first file of the allow-list
\* missing from disk
C17_Witness ==
    /\ ret.op = "set_chip"
    /\ has_hal
    /\ src["stm32f1xx_hal.c"] = Absent
    /\ hal_src_files = <<"system_stm32f1xx.c">>

\* none of the files of a family's allow-list is on disk
NoneOnDisk(family) == Range(NeededFiles(family)) \cap OnDiskNow = {}

\* this step is a compile of a session whose HAL resolution found no source
\* file, with the toolchain available
CompileWithoutSources ==
    /\ ret'.op = "compile"
    /\ has_gcc
    /\ chip_info # NoChip
    /\ hal_src_files = <<>>

\* C18: when none of the allow-listed source files of the resolved family
\* is on disk, whether or not the family header exists, has_hal is false
\* after set_chip and the next compile is a syntax-only check that links
\* nothing
C18_NoSourcesMeansNoHal ==
    [][/\ FindHalRan /\ NoneOnDisk(current_family') => has_hal' = FALSE
       /\ CompileWithoutSources =>
             /\ ret'.mode = "syntax"
             /\ ret'.bin_path = "None"]_vars

(***************************************************************************)
(* compile without a HAL, and without a toolchain                          *)
(***************************************************************************)
\* the call just made was compile
Compiled == ret.op = "compile"

\* no header stm32<f>xx_hal.h is installed for the family of the chip
NoHalInstalled == chip_info # NoChip /\ current_family \notin HalHeaders

\* C19: with the toolchain available and no HAL installed for the family of
\* the chip, compile runs the compiler once as a syntax check, links
\* nothing and does not run objcopy; every result has bin_path None and
\* bin_size 0, and when the syntax check exits 0 the result is ok = True
C19_NoHalIsSyntaxOnly ==
    Compiled /\ has_gcc /\ NoHalInstalled =>
        /\ ret.mode = "syntax"
        /\ ret.procs = <<"gcc">>
        /\ ret.srcs = <<>> /\ ret.libs = ""
        /\ ret.bin_path = "None" /\ ret.bin_size = 0
        /\ bin = FALSE
        /\ ret.err = "none" => ret.ok /\ ret.msg = "syntax_ok"
        /\ ret.err # "none" => ~ret.ok

\* a syntax check that exited 0, for a chip of a family without a HAL
C19_Witness ==
    /\ Compiled /\ has_gcc /\ NoHalInstalled
    /\ ret.err = "none"
    /\ ret.ok
    /\ ret.bin_path = "None"

\* C20: whenever has_gcc is false, compile starts no child process and
\* returns ok = False with a message that is not empty, bin_path None and
\* bin_size 0
C20_NoToolchainNoProcess ==
    Compiled /\ ~has_gcc =>
        /\ ret.procs = <<>>
        /\ ~ret.ok
        /\ ret.msg # ""
        /\ ret.bin_path = "None" /\ ret.bin_size = 0

\* compile has returned in a session that has a HAL and sources but no
\* toolchain
C20_Witness ==
    /\ Compiled /\ ~has_gcc
    /\ has_hal /\ hal_src_files # <<>>
    /\ ~ret.ok
    /\ ret.procs = <<>>

(***************************************************************************)
(* Failures of the child processes                                         *)
(***************************************************************************)
\* no value occurs twice in a sequence
NoRepeat(seq) == \A i, j \in 1..Len(seq) : seq[i] = seq[j] => i = j

IsPrefix(s, t) == Len(s) <= Len(t) /\ SubSeq(t, 1, Len(s)) = s

\* C21: a child process that times out is a failure and is not run again:
\* when the compiler or objcopy times out, compile returns ok = False with
\* the timed-out message and bin_path None, having started the compiler
\* once; when a unit's compiler run or the archiver times out,
\* precompile_hal returns False, having run the compiler at most once on
\* each unit, on none after the one that timed out, and the archiver at
\* most once
C21_TimeoutIsNotRetried ==
    /\ Compiled /\ ret.err = "timeout" =>
          /\ ~ret.ok
          /\ ret.msg = "timeout"
          /\ ret.bin_path = "None" /\ ret.bin_size = 0
          /\ Count(ret.procs, "gcc") = 1
          /\ Count(ret.procs, "objcopy") <= 1
    /\ ret.op = "precompile_hal" /\ ret.err = "timeout" =>
          /\ ~ret.ok
          /\ NoRepeat(ret.invoked)
          /\ IsPrefix(ret.invoked, ret.selected)
          /\ ret.ar <= 1
          /\ ret.ar = 0 => ret.invoked # <<>>

\* the link of a session that has a HAL has timed out
C21_Witness ==
    /\ Compiled /\ ret.err = "timeout"
    /\ has_hal
    /\ ret.procs = <<"gcc">>
    /\ ~ret.ok

\* s is t with some of its members left out
RECURSIVE IsSubSeq(_, _)
IsSubSeq(s, t) ==
    IF s = <<>> THEN TRUE
    ELSE IF t = <<>> THEN FALSE
    ELSE IF Head(s) = Head(t) THEN IsSubSeq(Tail(s), Tail(t))
    ELSE IsSubSeq(s, Tail(t))

\* s is the last part of t
IsTail(s, t) ==
    Len(s) <= Len(t) /\ SubSeq(t, Len(t) - Len(s) + 1, Len(t)) = s

Diagnosed == ret.op = "compile" /\ ret.msg = "diagnostics" /\ ret.args # <<>>

SomeMarked(err) == \E i \in 1..Len(Split(err)) : HasMarker(Split(err)[i])

\* C22: when the compiler exits non-zero, the message of compile is made of
\* lines of stderr that contain a recognized marker, in their order in
\* stderr, if there is such a line; if there is none, it is the raw tail,
\* the last part, of stderr
C22_MessageFromDiagnostics ==
    Diagnosed =>
        IF SomeMarked(ret.args[1])
        THEN /\ \A i \in 1..Len(Split(ret.text)) : HasMarker(Split(ret.text)[i])
             /\ IsSubSeq(Split(ret.text), Split(ret.args[1]))
        ELSE /\ IsTail(ret.text, ret.args[1])
             /\ ret.args[1] # <<>> => ret.text # <<>>

\* C23: set_chip, precompile_hal and compile never raise: whatever the child
\* processes do and whatever the files on disk are (a HAL source deleted after
\* it was resolved, its object still there), each call returns a value
C23_FailuresAreValues ==
    ret.op \in {"set_chip", "precompile_hal", "compile"} => ~ret.raised

\* the four fields of the dictionary compile returns
ResultOf(r) ==
    [ok |-> r.ok, msg |-> r.msg, bin_path |-> r.bin_path, bin_size |-> r.bin_size]

ResultShape ==
    [ok : BOOLEAN,
     msg : {"no_gcc", "diagnostics", "timeout", "exception", "syntax_ok", "built"},
     bin_path : {"None", "firmware.bin"},
     bin_size : Nat]

\* C24: every value compile returns has the fields ok, msg, bin_path and
\* bin_size; ok false implies bin_path None and bin_size 0; bin_path is not
\* None only if ok is true and the HAL is available
C24_ResultShape ==
    ret.op = "compile" =>
        /\ ResultOf(ret) \in ResultShape
        /\ ~ret.ok => ret.bin_path = "None" /\ ret.bin_size = 0
        /\ ret.bin_path # "None" => ret.ok /\ has_hal

\* a compile that failed after the link, in objcopy, with the HAL available
C24_Witness ==
    /\ ret.op = "compile"
    /\ ~ret.ok
    /\ has_hal
    /\ ret.procs = <<"gcc", "objcopy">>

\* the archive member was compiled with the flags and the define of the chip
BuiltFor(member, chip) ==
    /\ member.cpu = CHIP_DB[chip].cpu
    /\ member.fpu = CHIP_DB[chip].fpu
    /\ member.define = CHIP_DB[chip].define

\* C25: whenever compile takes the fast path, every object in the archive it
\* links was compiled with the current chip's define and CPU/FPU flags, after
\* any sequence of set_chip, check, precompile_hal and compile calls, switches
\* between two chips of one family with different defines included
C25_ArchiveBuiltForChip ==
    (ret.op = "compile" /\ ret.mode = "fast" /\ ret.procs # <<>>) =>
        \A f \in SrcFiles :
            lib[ret.libs].members[f] # NoMember =>
                BuiltFor(lib[ret.libs].members[f], chip_info)

\* what has_hal_lib = True stands on
ReadyIsFounded ==
    has_hal_lib =>
        /\ has_hal
        /\ has_gcc
        /\ chip_info # NoChip
        /\ current_family # NoFamily
        /\ lib[current_family].exists

\* across a change of the family the flag is true only where this same call
\* has set it again for the new family
ReadyIsResetOnSwitch ==
    (current_family' # current_family /\ has_hal_lib') =>
        /\ ret'.op = "check"
        /\ CHIP_DB[chip_info'].family = current_family'
        /\ lib'[current_family'].exists
        /\ has_hal' /\ has_gcc'

\* C26: in every reachable state has_hal_lib true implies has_hal, has_gcc,
\* a current chip, and that the archive of the current family was on disk
\* when the flag was set; the flag never stays true across a change of the
\* current family
C26_ReadyFlagIsFounded ==
    []ReadyIsFounded /\ [][ReadyIsResetOnSwitch]_vars

\* check has just built the archive and set the flag
C26_Witness ==
    /\ has_hal_lib
    /\ ret.op = "check"
    /\ ret.ar = 1
    /\ lib[current_family].exists

\* C27: whenever precompile_hal returns True, the archive of the family holds
\* the current object of every file of hal_src_files: no such object is newer
\* than the archive, after any sequence of source edits, failed or partial
\* precompile_hal runs and family switches
C27_ArchiveHoldsCurrentObjects ==
    (ret.op = "precompile_hal" /\ ret.ok) =>
        \A f \in Range(hal_src_files) :
            /\ lib[FamilyOrF1(Self)].members[f] # NoMember
            /\ lib[FamilyOrF1(Self)].members[f].current

\* C28: whenever compile returns ok true with a bin_path that is not None,
\* firmware.bin exists at that path, was written by the objcopy run of this
\* call, and bin_size is its size (the file objcopy writes has size 1), also
\* when objcopy exits non-zero or writes no file
C28_BinaryExists ==
    (ret.op = "compile" /\ ret.ok /\ ret.bin_path # "None") =>
        /\ bin
        /\ Count(ret.procs, "objcopy") = 1
        /\ ret.bin_size = 1

MainCalled ==
    Running /\ \E i \in 1..Len(mcu.calls) : mcu.calls[i] = "main"

\* C29: in firmware linked from the generated startup code, main is
\* eventually called after every reset, also when no strong SystemInit is
\* linked and the reset handler's bl SystemInit reaches the weak binding
C29_MainEventuallyCalled == Running ~> MainCalled

\* C30: compile removes the firmware.bin of any previous build before
\* anything else can fail: after every compile call that returns ok false
\* (toolchain missing, compiler error, timeout) no firmware.bin remains, for
\* any sequence of successful and failed compiles
C30_NoBinaryAfterFailure ==
    (ret.op = "compile" /\ ~ret.ok) => ~bin

\* a compile that found the firmware.bin of an earlier build, and failed
C30_Witness ==
    /\ ret.op = "compile"
    /\ ~ret.ok
    /\ ret.unlinked
    /\ ~bin
====
